---- MODULE Spec2Model ----
(***************************************************************************)
(* Evidence assembly and verification pipeline of                          *)
(* daflan-org/fawa-compliance-evidence: test-evidence producers, manifest  *)
(* merge, source-run ingest and evidence composition, as state machines    *)
(* over the files they read and write.                                     *)
(***************************************************************************)
EXTENDS Integers, Sequences, FiniteSets, TLC

VARIABLES
    manifests,    \* out/test-evidence/**/compliance-test-evidence-manifest.json, by directory
    testFiles,    \* artifact files under out/test-evidence, by relative path
    envEdits,     \* number of external changes made to the input files so far
    mergeLog,     \* the merge runs made on the present tree: testIds read, outcome
    ingestFile,   \* out/ingest/falcon.json
    policyFile,   \* out/policy/policy-provenance.json is present
    current,      \* the publication directory current/
    composerLog,  \* the outcomes of the composer runs
    ingest,       \* the ingest run: position, payload, responses, requests issued
    history,      \* current/evidence.json as the snapshotter reads it, and history/
    signer,       \* the policy signer's key, the policy files and its runs
    producers,    \* the two producers as processes: position, environment, entries
    cli,          \* the command lines run so far and the outcome of the last one
    verifier,     \* the published document verify-current.sh reads, and its outcome
    composer      \* the composer as a process: position, summary, files written

fsVars == <<manifests, testFiles>>
composerVars == <<policyFile, current, composerLog, composer>>
toolVars == <<history, signer, producers, cli, verifier>>
vars == <<manifests, testFiles, envEdits, mergeLog, ingestFile, policyFile,
          current, composerLog, ingest, history, signer,
          producers, cli, verifier, composer>>

-----------------------------------------------------------------------------
(* Bounds of the model.                                                    *)

MaxEnvEdits == 1
MaxMergeRuns == 2
MaxComposerRuns == 2

-----------------------------------------------------------------------------
(* JSON values.  A field that is absent or not a string is Undefined.      *)

Undefined == "<undefined>"

\* new Date().toISOString(): some valid ISO timestamp
NowIso == "2026-02-28T21:44:29.000Z"

\* Number.isFinite(Date.parse(v)) for the values the model uses
DateParseIsFinite(v) == v \in {NowIso, "2026-02-28T19:03:13.000Z"}

\* typeof v === "string" && v.length > 0
IsNonEmptyString(v) == v # Undefined /\ Len(v) > 0

SeqToSet(s) == {s[i] : i \in 1..Len(s)}

RECURSIVE SeqSum(_)
SeqSum(s) == IF s = <<>> THEN 0 ELSE Head(s) + SeqSum(Tail(s))

RECURSIVE Flatten(_)
Flatten(ss) == IF ss = <<>> THEN <<>> ELSE Head(ss) \o Flatten(Tail(ss))

\* the injective sequences over a finite set: the orders a readdir may return
Orderings(S) ==
    {f \in [1..Cardinality(S) -> S] : \A i, j \in 1..Cardinality(S) : f[i] = f[j] => i = j}

-----------------------------------------------------------------------------
(* Test definitions of the two producers.                                  *)

workflowPath == ".github/workflows/ci-tests.yml"

AssertionDefinition(id, file) ==
    [assertionId |-> id, name |-> id, filePath |-> file,
     matcherType |-> "includes", matcher |-> id, expected |-> id]

testDefinitions ==
    << [testId |-> "permission-analyzer-unit",
        sourcePath |-> "packages/domain/src/device/services/permission-analyzer.service.spec.ts",
        suiteType |-> "unit",
        assertions |->
          << AssertionDefinition("location-denied-rule",
                 "packages/domain/src/device/services/permission-analyzer.service.spec.ts"),
             AssertionDefinition("location-denied-severity-critical",
                 "packages/domain/src/device/services/permission-analyzer.service.spec.ts"),
             AssertionDefinition("notifications-denied-rule",
                 "packages/domain/src/device/services/permission-analyzer.service.spec.ts"),
             AssertionDefinition("notifications-denied-severity-warning",
                 "packages/domain/src/device/services/permission-analyzer.service.spec.ts") >>],
       [testId |-> "ttl-indexes-persistence-unit",
        sourcePath |-> "packages/persistence/src/mongoose/ttl-indexes.spec.ts",
        suiteType |-> "unit",
        assertions |->
          << AssertionDefinition("location-records-ttl-30d",
                 "packages/persistence/src/mongoose/device-sync/schemas/location-record.schema.ts"),
             AssertionDefinition("heartbeat-records-ttl-30d",
                 "packages/persistence/src/mongoose/device-sync/schemas/heartbeat-record.schema.ts"),
             AssertionDefinition("outbox-archive-default-ttl-30d",
                 "packages/persistence/src/mongoose/outbox/schemas/outbox-archive.schema.ts") >>],
       [testId |-> "ttl-indexes-api-unit",
        sourcePath |-> "apps/api/src/schemas/ttl-indexes.spec.ts",
        suiteType |-> "unit",
        assertions |->
          << AssertionDefinition("refresh-token-expiration-index",
                 "apps/api/src/schemas/ttl-indexes.spec.ts"),
             AssertionDefinition("media-deleteat-expiration-index",
                 "apps/api/src/schemas/ttl-indexes.spec.ts") >>] >>

e2eDefinitions ==
    << [testId |-> "device-sync-e2e",
        sourcePath |-> "apps/api/test/device-sync.e2e.spec.ts",
        suiteType |-> "e2e",
        assertions |->
          << AssertionDefinition("device-sync-endpoint-exists",
                 "apps/api/test/device-sync.e2e.spec.ts"),
             AssertionDefinition("device-sync-durable-inbox-assertion",
                 "apps/api/test/device-sync.e2e.spec.ts"),
             AssertionDefinition("device-sync-record-processing-assertion",
                 "apps/api/test/device-sync.e2e.spec.ts") >>],
       [testId |-> "sos-e2e",
        sourcePath |-> "apps/api/test/sos.e2e.spec.ts",
        suiteType |-> "e2e",
        assertions |->
          << AssertionDefinition("sos-endpoint-exists", "apps/api/test/sos.e2e.spec.ts"),
             AssertionDefinition("sos-audit-action-assertion", "apps/api/test/sos.e2e.spec.ts"),
             AssertionDefinition("sos-audit-presence-assertion",
                 "apps/api/test/sos.e2e.spec.ts") >>] >>

\* requiredTestIds of merge-test-evidence-manifests
requiredTestIds ==
    << "permission-analyzer-unit", "ttl-indexes-persistence-unit", "ttl-indexes-api-unit",
       "device-sync-e2e", "sos-e2e" >>

-----------------------------------------------------------------------------
(* Files.  A path is a sequence of segments.  The content of an artifact   *)
(* file is what a reader parses out of it; its SHA-256 is modelled as an   *)
(* injective image of the content (no collisions).                         *)

NoContent == [kind |-> "absent", testId |-> Undefined, result |-> Undefined, assertions |-> <<>>]

sha256File(content) == [hex |-> TRUE, of |-> content]

\* a recorded sha256 that is not 64 hex characters
NotHexSha == [hex |-> FALSE, of |-> NoContent]

JsonName(testId) == testId \o ".json"
JunitName(testId) == testId \o ".junit.xml"

NoManifest ==
    [exists |-> FALSE, generatedAt |-> Undefined, isArray |-> FALSE, testEvidence |-> <<>>]

Manifest(entries) ==
    [exists |-> TRUE, generatedAt |-> NowIso, isArray |-> TRUE, testEvidence |-> entries]

\* directories under out/test-evidence that may hold a manifest file
RootDir == ""
E2eDir == "e2e"
ManifestDirs == {RootDir, E2eDir, "E2E"}

AllTestIds == SeqToSet(requiredTestIds) \cup {"extra-unit"}

TestFilePaths ==
    UNION {{<<"tests", JsonName(t)>>, <<"tests", JunitName(t)>>,
            <<"tests", "sub", JsonName(t)>>,
            <<"e2e", "tests", JsonName(t)>>, <<"e2e", "tests", JunitName(t)>>}
           : t \in AllTestIds}

NoTestFiles == [p \in TestFilePaths |-> NoContent]

-----------------------------------------------------------------------------
(* The producers: run-test-evidence and run-e2e-test-evidence.             *)

\* unmatched: the assertion ids whose matcher does not match its source file
evaluateAssertions(definitions, unmatched, verifiedAt) ==
    [i \in 1..Len(definitions) |->
        LET definition == definitions[i]
            matched == definition.assertionId \notin unmatched
        IN [assertionId |-> definition.assertionId,
            name |-> definition.name,
            status |-> IF matched THEN "passed" ELSE "failed",
            expected |-> definition.expected,
            actual |-> IF matched THEN "Matched" ELSE "Matcher not found",
            evidenceRef |-> [filePath |-> definition.filePath,
                             matcherType |-> definition.matcherType,
                             matcher |-> definition.matcher],
            verifiedAt |-> verifiedAt]]

\* the sanitized JSON artifact and the JUnit artifact of one test
SanitizedJson(testId, result, assertions) ==
    [kind |-> "json", testId |-> testId, result |-> result, assertions |-> assertions]

JunitXml(testId, result) ==
    [kind |-> "junit", testId |-> testId, result |-> result, assertions |-> <<>>]

writeSanitizedArtifacts(testId, result, assertions) ==
    << [format |-> "json", path |-> <<"current", "tests", JsonName(testId)>>,
        sha256 |-> sha256File(SanitizedJson(testId, result, assertions))],
       [format |-> "junit", path |-> <<"current", "tests", JunitName(testId)>>,
        sha256 |-> sha256File(JunitXml(testId, result))] >>

\* rawResult: the value of EVIDENCE_RESULT, Undefined when unset
JobResult(rawResult) ==
    LET raw == IF rawResult = Undefined THEN "passed" ELSE rawResult
    IN IF raw = "failed" THEN "failed" ELSE "passed"

ProducerEntry(test, unmatched, rawResult, jobName) ==
    LET assertions == evaluateAssertions(test.assertions, unmatched, NowIso)
        hasFailedAssertion == \E i \in 1..Len(assertions) : assertions[i].status = "failed"
        result == IF JobResult(rawResult) = "passed" /\ ~hasFailedAssertion
                  THEN "passed" ELSE "failed"
    IN [testId |-> test.testId,
        sourcePath |-> test.sourcePath,
        suiteType |-> test.suiteType,
        result |-> result,
        workflowPath |-> workflowPath,
        runId |-> "local",
        jobName |-> jobName,
        sourceCommitSha |-> "local",
        executedAt |-> NowIso,
        artifacts |-> writeSanitizedArtifacts(test.testId, result, assertions),
        verificationCommand |-> "curl && shasum && jq",
        assertions |-> assertions]

ProducerEntries(definitions, unmatched, rawResult, jobName) ==
    [i \in 1..Len(definitions) |-> ProducerEntry(definitions[i], unmatched, rawResult, jobName)]

\* the files a producer writes into its tests directory
RECURSIVE ProducerFilesFrom(_, _, _, _)
ProducerFilesFrom(dirPrefix, entries, i, files) ==
    IF i > Len(entries) THEN files
    ELSE ProducerFilesFrom(dirPrefix, entries, i + 1,
             [files EXCEPT
                 ![dirPrefix \o <<"tests", JsonName(entries[i].testId)>>] =
                     SanitizedJson(entries[i].testId, entries[i].result, entries[i].assertions),
                 ![dirPrefix \o <<"tests", JunitName(entries[i].testId)>>] =
                     JunitXml(entries[i].testId, entries[i].result)])

ProducerFiles(dirPrefix, entries, files) == ProducerFilesFrom(dirPrefix, entries, 1, files)

\* what runTestEvidence does to out/test-evidence: removes it, then writes tests/ and
\* the manifest
TestEvidenceWritten(unmatched, rawResult) ==
    LET entries == ProducerEntries(testDefinitions, unmatched, rawResult,
                                   "Compliance Test Evidence (Public)")
    IN /\ manifests' = [d \in ManifestDirs |->
                           IF d = RootDir THEN Manifest(entries) ELSE NoManifest]
       /\ testFiles' = ProducerFiles(<<>>, entries, NoTestFiles)
       /\ mergeLog' = <<>>

\* run-test-evidence
runTestEvidence(unmatched, rawResult) ==
    /\ TestEvidenceWritten(unmatched, rawResult)
    /\ UNCHANGED <<envEdits, ingestFile, composerVars, ingest, toolVars>>

\* what runE2eTestEvidence does to out/test-evidence: removes e2e/, then writes
\* e2e/tests/ and the manifest
E2eTestEvidenceWritten(unmatched, rawResult) ==
    LET entries == ProducerEntries(e2eDefinitions, unmatched, rawResult,
                                   "Integration And E2E Tests")
        kept == [p \in TestFilePaths |->
                    IF Len(p) > 0 /\ p[1] = "e2e" THEN NoContent ELSE testFiles[p]]
    IN /\ manifests' = [manifests EXCEPT ![E2eDir] = Manifest(entries)]
       /\ testFiles' = ProducerFiles(<<"e2e">>, entries, kept)
       /\ mergeLog' = <<>>

\* run-e2e-test-evidence
runE2eTestEvidence(unmatched, rawResult) ==
    /\ E2eTestEvidenceWritten(unmatched, rawResult)
    /\ UNCHANGED <<envEdits, ingestFile, composerVars, ingest, toolVars>>

-----------------------------------------------------------------------------
(* merge-test-evidence-manifests: file order.                              *)
(* The absolute paths share the prefix <cwd>/out/test-evidence/; the model *)
(* compares the remainders, which decides the comparison of the paths.     *)

FileNameChars ==
    << "c","o","m","p","l","i","a","n","c","e","-","t","e","s","t","-",
       "e","v","i","d","e","n","c","e","-","m","a","n","i","f","e","s","t",
       ".","j","s","o","n" >>

DirChars(dir) ==
    CASE dir = "e2e" -> <<"e", "2", "e">>
      [] dir = "E2E" -> <<"E", "2", "E">>
      [] OTHER -> <<>>

\* the characters of path.join(inputRoot, dir, "compliance-test-evidence-manifest.json")
\* after inputRoot
PathChars(dir) ==
    IF dir = RootDir THEN FileNameChars ELSE DirChars(dir) \o <<"/">> \o FileNameChars

\* UTF-16 code units of the characters in use
CodeUnit(c) ==
    CASE c = "-" -> 45 [] c = "." -> 46 [] c = "/" -> 47 [] c = "2" -> 50
      [] c = "E" -> 69
      [] c = "a" -> 97 [] c = "c" -> 99 [] c = "d" -> 100 [] c = "e" -> 101
      [] c = "f" -> 102 [] c = "i" -> 105 [] c = "j" -> 106 [] c = "l" -> 108
      [] c = "m" -> 109 [] c = "n" -> 110 [] c = "o" -> 111 [] c = "p" -> 112
      [] c = "s" -> 115 [] c = "t" -> 116 [] c = "v" -> 118

ToLower(c) == IF c = "E" THEN "e" ELSE c

\* collation weights of String.prototype.localeCompare (ICU root collation): the
\* primary weight ignores letter case (punctuation < digits < letters), the
\* tertiary weight puts a lower-case letter before its upper-case form
PrimaryWeight(c) == CodeUnit(ToLower(c))
TertiaryWeight(c) == IF c = ToLower(c) THEN 0 ELSE 1

\* -1, 0 or 1: lexicographic comparison of two sequences of numbers
CompareSeq(s, t) ==
    LET n == IF Len(s) < Len(t) THEN Len(s) ELSE Len(t)
        diff == {i \in 1..n : s[i] # t[i]}
    IN IF diff = {}
       THEN (IF Len(s) < Len(t) THEN -1 ELSE IF Len(s) > Len(t) THEN 1 ELSE 0)
       ELSE LET i == CHOOSE i \in diff : \A j \in diff : i <= j
            IN IF s[i] < t[i] THEN -1 ELSE 1

\* the weights and the code units of the path of each manifest directory
PrimaryWeights ==
    [d \in ManifestDirs |-> [i \in 1..Len(PathChars(d)) |-> PrimaryWeight(PathChars(d)[i])]]
TertiaryWeights ==
    [d \in ManifestDirs |-> [i \in 1..Len(PathChars(d)) |-> TertiaryWeight(PathChars(d)[i])]]
CodeUnits ==
    [d \in ManifestDirs |-> [i \in 1..Len(PathChars(d)) |-> CodeUnit(PathChars(d)[i])]]

\* a.localeCompare(b) on the paths of two manifest directories
localeCompare(a, b) ==
    IF CompareSeq(PrimaryWeights[a], PrimaryWeights[b]) # 0
    THEN CompareSeq(PrimaryWeights[a], PrimaryWeights[b])
    ELSE CompareSeq(TertiaryWeights[a], TertiaryWeights[b])

\* comparison of the paths by UTF-16 code units (the order of a plain sort())
CodeUnitCompare(a, b) == CompareSeq(CodeUnits[a], CodeUnits[b])

\* Array.prototype.sort with a comparator: a stable sort
RECURSIVE InsertStable(_, _)
InsertStable(sorted, x) ==
    IF sorted = <<>> THEN <<x>>
    ELSE LET last == sorted[Len(sorted)]
         IN IF localeCompare(last, x) <= 0
            THEN Append(sorted, x)
            ELSE Append(InsertStable(SubSeq(sorted, 1, Len(sorted) - 1), x), last)

RECURSIVE SortStable(_)
SortStable(files) ==
    IF files = <<>> THEN <<>>
    ELSE InsertStable(SortStable(SubSeq(files, 1, Len(files) - 1)), files[Len(files)])

UnsortedFiles(files) == files

\* collectManifestFiles(inputRoot).sort((a, b) => a.localeCompare(b))
SortManifestFiles(files) == SortStable(files)

\* collectManifestFiles: the manifest files found, in any order readdirSync may give
collectManifestFiles(tree) == Orderings({d \in ManifestDirs : tree[d].exists})

-----------------------------------------------------------------------------
(* merge-test-evidence-manifests: validation and merge.                    *)

\* the loop over entry.assertions: "ok" or the first failed check
RECURSIVE AssertionIdCheck(_, _, _)
AssertionIdCheck(assertions, i, assertionIds) ==
    IF i > Len(assertions) THEN "ok"
    ELSE IF ~IsNonEmptyString(assertions[i].assertionId) THEN "assertionId"
    ELSE IF assertions[i].assertionId \in assertionIds THEN "duplicateAssertionId"
    ELSE AssertionIdCheck(assertions, i + 1, assertionIds \cup {assertions[i].assertionId})

FailedAssertionCount(entry) ==
    Cardinality({i \in 1..Len(entry.assertions) : entry.assertions[i].status = "failed"})

FailedAssertionsIgnored(entry) == 0

MergeFailedAssertionCount(entry) == FailedAssertionCount(entry)

\* validateEntry: "ok" or the name of the first ensure() that throws
validateEntry(entry) ==
    IF ~IsNonEmptyString(entry.testId) THEN "testId"
    ELSE IF entry.suiteType \notin {"unit", "e2e"} THEN "suiteType"
    ELSE IF entry.result \notin {"passed", "failed"} THEN "result"
    ELSE IF ~DateParseIsFinite(entry.executedAt) THEN "executedAt"
    ELSE IF Len(entry.assertions) = 0 THEN "assertions"
    ELSE IF MergeFailedAssertionCount(entry) # 0 THEN "failedAssertions"
    ELSE AssertionIdCheck(entry.assertions, 1, {})

MergeOk(entries) == [ok |-> TRUE, kind |-> "none", testId |-> Undefined,
                     file |-> Undefined, entries |-> entries]

MergeError(kind, testId, file) ==
    [ok |-> FALSE, kind |-> kind, testId |-> testId, file |-> file, entries |-> <<>>]

\* the entries of the files in processing order, each with its file
FileEntries(tree, files) ==
    Flatten([i \in 1..Len(files) |->
               IF tree[files[i]].isArray
               THEN [j \in 1..Len(tree[files[i]].testEvidence) |->
                        [file |-> files[i], entry |-> tree[files[i]].testEvidence[j]]]
               ELSE <<>>])

SeenTestId(seenTestIds, testId) == testId \in seenTestIds

\* the policy of the older merge: a repeated testId is no error
LastWriteWins(seenTestIds, testId) == FALSE

\* seenTestIds.has(entry.testId)
DuplicateAcrossManifests(seenTestIds, testId) == SeenTestId(seenTestIds, testId)

FirstMissing(required, seenTestIds) ==
    LET missing == {i \in 1..Len(required) : required[i] \notin seenTestIds}
    IN IF missing = {} THEN Undefined
       ELSE required[CHOOSE i \in missing : \A j \in missing : i <= j]

\* a merge without the completeness check
NoneMissing(required, seenTestIds) == Undefined

\* the loop over requiredTestIds: the first id that is not in seenTestIds
MissingRequiredTestId(required, seenTestIds) == FirstMissing(required, seenTestIds)

RECURSIVE MergeLoop(_, _, _, _)
MergeLoop(pairs, i, seenTestIds, mergedEntries) ==
    IF i > Len(pairs)
    THEN IF MissingRequiredTestId(requiredTestIds, seenTestIds) # Undefined
         THEN MergeError("missing", MissingRequiredTestId(requiredTestIds, seenTestIds),
                         Undefined)
         ELSE MergeOk(mergedEntries)
    ELSE LET entry == pairs[i].entry
             file == pairs[i].file
         IN IF validateEntry(entry) # "ok"
            THEN MergeError(validateEntry(entry), entry.testId, file)
            ELSE IF DuplicateAcrossManifests(seenTestIds, entry.testId)
            THEN MergeError("duplicate", entry.testId, file)
            ELSE MergeLoop(pairs, i + 1, seenTestIds \cup {entry.testId},
                           Append(mergedEntries, entry))

\* the outcome of a merge run that found the files in the order "enumerated"
MergeOutcome(tree, enumerated) ==
    MergeLoop(FileEntries(tree, SortManifestFiles(enumerated)), 1, {}, <<>>)

\* the testIds of the manifest files of a tree, by directory
TestIdsOf(entries) == [i \in 1..Len(entries) |-> entries[i].testId]

InputTestIds(tree) ==
    [d \in ManifestDirs |->
        IF tree[d].exists /\ tree[d].isArray THEN TestIdsOf(tree[d].testEvidence) ELSE <<>>]

\* a merge that writes what it has merged whether or not the checks passed
MergedSoFarWritten ==
    \E enumerated \in collectManifestFiles(manifests) :
        LET outcome == MergeOutcome(manifests, enumerated)
        IN /\ manifests' = [manifests EXCEPT ![RootDir] = Manifest(outcome.entries)]
           /\ mergeLog' = Append(mergeLog, [inputTestIds |-> InputTestIds(manifests),
                                             outcome |-> outcome])

\* what runMergeTestEvidenceManifests does: on success the merged manifest replaces
\* out/test-evidence/compliance-test-evidence-manifest.json; mergeLog keeps, for each
\* run since the tree was last changed from outside, what it read and how it ended
MergedManifestWritten ==
    \E enumerated \in collectManifestFiles(manifests) :
        LET outcome == MergeOutcome(manifests, enumerated)
        IN /\ manifests' = IF outcome.ok
                           THEN [manifests EXCEPT ![RootDir] = Manifest(outcome.entries)]
                           ELSE manifests
           /\ mergeLog' = Append(mergeLog, [inputTestIds |-> InputTestIds(manifests),
                                             outcome |-> outcome])

\* merge-test-evidence-manifests
runMergeTestEvidenceManifests ==
    /\ Len(mergeLog) < MaxMergeRuns
    /\ MergedManifestWritten
    /\ UNCHANGED <<testFiles, envEdits, ingestFile, composerVars, ingest, toolVars>>

-----------------------------------------------------------------------------
(* build-evidence: the EvidenceComposer.                                   *)

NoIngest ==
    [exists |-> FALSE, commitSha |-> Undefined,
     ci |-> [runId |-> Undefined, conclusion |-> Undefined],
     deploy |-> [runId |-> Undefined, conclusion |-> Undefined, jobs |-> <<>>]]

\* the files of current/tests, by path below current/tests
CurrentTestPaths == {SubSeq(p, 2, Len(p)) : p \in {q \in TestFilePaths : q[1] = "tests"}}

NoEvidence ==
    [exists |-> FALSE, generatedAt |-> Undefined, testEvidence |-> <<>>,
     assertionSummary |-> [total |-> 0, passed |-> 0, failed |-> 0, byTest |-> <<>>],
     checks |-> <<>>]

NoDeployRun == [exists |-> FALSE, deploy |-> NoIngest.deploy]

EmptyCurrent ==
    [evidence |-> NoEvidence, deployRun |-> NoDeployRun,
     tests |-> [p \in CurrentTestPaths |-> NoContent]]

\* artifactPath.startsWith("current/tests/")
StartsWithCurrentTests(artifactPath) ==
    Len(artifactPath) >= 3 /\ artifactPath[1] = "current" /\ artifactPath[2] = "tests"

\* path.basename
Basename(p) == p[Len(p)]

\* resolveLocalArtifactPath: the path below dirname(testManifestPath) = out/test-evidence
resolveLocalArtifactPath(artifactPath) ==
    IF StartsWithCurrentTests(artifactPath)
    THEN <<"tests", Basename(artifactPath)>>
    ELSE artifactPath

\* readFileSync / existsSync below out/test-evidence
ReadTestFile(files, p) == IF p \in TestFilePaths THEN files[p] ELSE NoContent
ExistsTestFile(files, p) == ReadTestFile(files, p).kind # "absent"

\* validateAssertion: "ok" or the name of the first ensure() that throws
validateAssertion(assertion) ==
    IF ~IsNonEmptyString(assertion.assertionId) THEN "assertionId"
    ELSE IF ~IsNonEmptyString(assertion.name) THEN "assertionName"
    ELSE IF assertion.status \notin {"passed", "failed"} THEN "assertionStatus"
    ELSE IF ~IsNonEmptyString(assertion.expected) THEN "assertionExpected"
    ELSE IF ~IsNonEmptyString(assertion.actual) THEN "assertionActual"
    ELSE IF ~DateParseIsFinite(assertion.verifiedAt) THEN "assertionVerifiedAt"
    ELSE IF ~(/\ IsNonEmptyString(assertion.evidenceRef.filePath)
              /\ assertion.evidenceRef.matcherType \in {"includes", "regex"}
              /\ IsNonEmptyString(assertion.evidenceRef.matcher)) THEN "evidenceRef"
    ELSE "ok"

\* the first assertion of the entry that validateAssertion rejects, as its error
FirstAssertionError(assertions) ==
    LET bad == {i \in 1..Len(assertions) : validateAssertion(assertions[i]) # "ok"}
    IN IF bad = {} THEN "ok"
       ELSE validateAssertion(assertions[CHOOSE i \in bad : \A j \in bad : i <= j])

\* a composer that copies the recorded hash forward without comparing
ShaNeverDiffers(actualSha, recordedSha) == FALSE

\* actualSha !== artifact.sha256
ShaDiffers(actualSha, recordedSha) == actualSha # recordedSha

\* the checks of one artifact, in order
ArtifactError(entry, artifact, files) ==
    LET artifactLocalPath == resolveLocalArtifactPath(artifact.path)
        artifactPayload == ReadTestFile(files, artifactLocalPath)
    IN IF artifact.format \notin {"json", "junit"} THEN "artifactFormat"
       ELSE IF Len(artifact.path) = 0 THEN "artifactPath"
       ELSE IF ~artifact.sha256.hex THEN "artifactSha256"
       ELSE IF ~ExistsTestFile(files, artifactLocalPath) THEN "artifactNotFound"
       ELSE IF ShaDiffers(sha256File(artifactPayload), artifact.sha256)
            THEN "sha256Mismatch"
       ELSE IF artifact.format = "json" /\ artifactPayload.testId # entry.testId
            THEN "artifactTestId"
       ELSE IF artifact.format = "json" /\ artifactPayload.result # entry.result
            THEN "artifactResult"
       ELSE IF artifact.format = "json" /\ Len(artifactPayload.assertions) = 0
            THEN "artifactAssertions"
       ELSE "ok"

FirstArtifactError(entry, files) ==
    LET bad == {i \in 1..Len(entry.artifacts) :
                   ArtifactError(entry, entry.artifacts[i], files) # "ok"}
    IN IF bad = {} THEN "ok"
       ELSE ArtifactError(entry, entry.artifacts[CHOOSE i \in bad : \A j \in bad : i <= j],
                          files)

PassedCount(entry) ==
    Cardinality({i \in 1..Len(entry.assertions) : entry.assertions[i].status = "passed"})

\* a count that starts at the second assertion
PassedCountSkipsFirst(entry) ==
    Cardinality({i \in 2..Len(entry.assertions) : entry.assertions[i].status = "passed"})

\* localPassed: the assertions of the entry with status "passed"
LocalPassed(entry) == PassedCount(entry)

\* every assertion that is not "passed" counts as failed
LocalFailed(entry) ==
    Cardinality({i \in 1..Len(entry.assertions) : entry.assertions[i].status # "passed"})

\* a composer that trusts entry.result and does not count failed assertions
NoLocalFailed(entry) == 0

\* localFailed at the ensure() that rejects an entry with a failed assertion
ComposerLocalFailed(entry) == LocalFailed(entry)

\* the checks of one entry of the loop, in order
EntryError(entry, seenTestIds, files) ==
    IF ~IsNonEmptyString(entry.testId) THEN "testId"
    ELSE IF entry.testId \in seenTestIds THEN "duplicate"
    ELSE IF entry.result \notin {"passed", "failed"} THEN "result"
    ELSE IF Len(entry.assertions) = 0 THEN "assertions"
    ELSE IF Len(entry.artifacts) = 0 THEN "artifacts"
    ELSE IF FirstAssertionError(entry.assertions) # "ok"
         THEN FirstAssertionError(entry.assertions)
    ELSE IF ComposerLocalFailed(entry) # 0 THEN "failedAssertions"
    ELSE IF entry.result # "passed" THEN "resultNotPassed"
    ELSE IF ~\E i \in 1..Len(entry.artifacts) : entry.artifacts[i].format = "json"
         THEN "missingJsonArtifact"
    ELSE FirstArtifactError(entry, files)

ComposerOk(summary) ==
    [ok |-> TRUE, kind |-> "none", testId |-> Undefined, summary |-> summary]

ComposerError(kind, testId) ==
    [ok |-> FALSE, kind |-> kind, testId |-> testId, summary |-> NoEvidence.assertionSummary]

\* requiredTestIds of build-evidence
ComposerRequiredTestIds ==
    << "permission-analyzer-unit", "ttl-indexes-persistence-unit", "ttl-indexes-api-unit",
       "device-sync-e2e", "sos-e2e" >>

RECURSIVE SummarizeLoop(_, _, _, _, _)
SummarizeLoop(testEvidence, i, seenTestIds, summary, files) ==
    IF i > Len(testEvidence)
    THEN IF FirstMissing(ComposerRequiredTestIds, seenTestIds) # Undefined
         THEN ComposerError("missing", FirstMissing(ComposerRequiredTestIds, seenTestIds))
         ELSE ComposerOk(summary)
    ELSE LET entry == testEvidence[i]
         IN IF EntryError(entry, seenTestIds, files) # "ok"
            THEN ComposerError(EntryError(entry, seenTestIds, files), entry.testId)
            ELSE SummarizeLoop(testEvidence, i + 1, seenTestIds \cup {entry.testId},
                     [total |-> summary.total + Len(entry.assertions),
                      passed |-> summary.passed + LocalPassed(entry),
                      failed |-> summary.failed + LocalFailed(entry),
                      byTest |-> Append(summary.byTest,
                                    [testId |-> entry.testId,
                                     total |-> Len(entry.assertions),
                                     passed |-> LocalPassed(entry),
                                     failed |-> LocalFailed(entry)])],
                     files)

\* validateAndSummarizeTestEvidence: the summary, or the first error thrown
validateAndSummarizeTestEvidence(testEvidence, files) ==
    IF Len(testEvidence) = 0 THEN ComposerError("empty", Undefined)
    ELSE SummarizeLoop(testEvidence, 1, {}, NoEvidence.assertionSummary, files)

\* checks whose test-assertions status looks at the total instead of the failures
buildChecksFromTotal(ingestRecord, assertionSummary) ==
    << [id |-> "deploy-required-jobs", status |-> "passed"],
       [id |-> "ci-run-success",
        status |-> IF ingestRecord.ci.conclusion = "success" THEN "passed" ELSE "failed"],
       [id |-> "test-assertions",
        status |-> IF assertionSummary.total = 0 THEN "passed" ELSE "failed"] >>

\* buildChecks: the three checks, by id and status
buildChecks(ingestRecord, assertionSummary) ==
    << [id |-> "deploy-required-jobs", status |-> "passed"],
       [id |-> "ci-run-success",
        status |-> IF ingestRecord.ci.conclusion = "success" THEN "passed" ELSE "failed"],
       [id |-> "test-assertions",
        status |-> IF assertionSummary.failed = 0 THEN "passed" ELSE "failed"] >>

\* copyTestsFromArtifact: current/tests becomes a copy of out/test-evidence/tests
copyTestsFromArtifact(files) == [p \in CurrentTestPaths |-> files[<<"tests">> \o p]]

\* the outcome of run() up to the first write: the ensureFile checks and the
\* validation; an ingest record or policy provenance that is present is well-formed
ComposerOutcome ==
    IF ~ingestFile.exists THEN ComposerError("ingestNotFound", Undefined)
    ELSE IF ~manifests[RootDir].exists THEN ComposerError("manifestNotFound", Undefined)
    ELSE IF ~policyFile THEN ComposerError("policyNotFound", Undefined)
    ELSE validateAndSummarizeTestEvidence(
             IF manifests[RootDir].isArray THEN manifests[RootDir].testEvidence ELSE <<>>,
             testFiles)

\* run() of build-evidence: validates, then writes evidence.json, deploy-run.json and
\* current/tests
ComposerRun ==
    /\ Len(composerLog) < MaxComposerRuns
    /\ LET outcome == ComposerOutcome
       IN /\ composerLog' = Append(composerLog, outcome)
          /\ current' =
               IF outcome.ok
               THEN [evidence |->
                        [exists |-> TRUE, generatedAt |-> NowIso,
                         testEvidence |-> manifests[RootDir].testEvidence,
                         assertionSummary |-> outcome.summary,
                         checks |-> buildChecks(ingestFile, outcome.summary)],
                     deployRun |-> [exists |-> TRUE, deploy |-> ingestFile.deploy],
                     tests |-> copyTestsFromArtifact(testFiles)]
               ELSE current
    /\ UNCHANGED <<fsVars, envEdits, mergeLog, ingestFile, policyFile, ingest, toolVars,
                   composer>>

-----------------------------------------------------------------------------
(* ingest-falcon-evidence: the SourceRunVerifier.                          *)

MaxIngestRuns == 2
MaxJobEdits == 1

Null == "<null>"

expectedSourceRepo == "panalgin/falcon"

requiredDeployJobs == <<"sign_and_attest", "deploy_api", "deploy_worker", "finalize_healthcheck">>

\* value.trim() for the values the model uses
Trim(v) ==
    CASE v = " def456 " -> "def456"
      [] v = "   " -> ""
      [] OTHER -> v

\* typeof value === "string" && value.trim() !== ""
IsPresentString(v) == v # Undefined /\ Trim(v) # ""

\* Number.parseInt(value, 10) for the values the model uses; NaN is not finite
ParseInt(v) ==
    CASE v = "101" -> [finite |-> TRUE, value |-> 101]
      [] v = "202" -> [finite |-> TRUE, value |-> 202]
      [] v = "12abc" -> [finite |-> TRUE, value |-> 12]
      [] v = "0" -> [finite |-> TRUE, value |-> 0]
      [] OTHER -> [finite |-> FALSE, value |-> 0]

\* toRunId accepts the value
ValidRunId(v) == ParseInt(v).finite /\ ParseInt(v).value > 0

\* String(runId) for the run ids the model uses
RunIdString(n) ==
    CASE n = 101 -> "101" [] n = 202 -> "202" [] n = 12 -> "12" [] OTHER -> Undefined

PayloadKeys ==
    << "source_repo", "source_ref", "source_sha", "environment", "ci_run_id",
       "ci_artifact_name", "policy_artifact_name", "deploy_run_id",
       "deploy_workflow_name", "deploy_run_number", "api_image", "api_digest",
       "worker_image", "worker_digest" >>

ValidPayload ==
    [source_repo |-> "panalgin/falcon", source_ref |-> "pre-prod", source_sha |-> "def456",
     environment |-> "pre-prod", ci_run_id |-> "101",
     ci_artifact_name |-> "compliance-test-evidence-101",
     policy_artifact_name |-> "policy-provenance-101", deploy_run_id |-> "202",
     deploy_workflow_name |-> "Deploy", deploy_run_number |-> "7",
     api_image |-> "ghcr.io/panalgin/api", api_digest |-> "sha256:a",
     worker_image |-> "ghcr.io/panalgin/worker", worker_digest |-> "sha256:b"]

\* the dispatch payloads the model reads from out/dispatch/payload.json
Payloads ==
    {ValidPayload,
     [ValidPayload EXCEPT !.source_sha = " def456 "],
     [ValidPayload EXCEPT !.source_sha = "   "],
     [ValidPayload EXCEPT !.worker_digest = Undefined],
     [ValidPayload EXCEPT !.source_repo = "evil/falcon"],
     [ValidPayload EXCEPT !.ci_run_id = "abc"],
     [ValidPayload EXCEPT !.ci_run_id = "12abc"],
     [ValidPayload EXCEPT !.deploy_run_id = "0"],
     [ValidPayload EXCEPT !.source_repo = "evil/falcon", !.deploy_run_id = "0"]}

\* parseDispatchPayload: the first key whose assertString throws, or Undefined
FirstMissingKey(raw) ==
    LET bad == {i \in 1..Len(PayloadKeys) : ~IsPresentString(raw[PayloadKeys[i]])}
    IN IF bad = {} THEN Undefined ELSE PayloadKeys[CHOOSE i \in bad : \A j \in bad : i <= j]

parseDispatchPayload(raw) == [k \in DOMAIN raw |-> Trim(raw[k])]

Job(name, conclusion) == [name |-> name, conclusion |-> conclusion]

AllJobsSucceeded == [i \in 1..Len(requiredDeployJobs) |-> Job(requiredDeployJobs[i], "success")]

RemoveAt(s, i) == SubSeq(s, 1, i - 1) \o SubSeq(s, i + 1, Len(s))

\* the job lists one change away from a job list
JobEdits(jobs) ==
    {RemoveAt(jobs, i) : i \in 1..Len(jobs)}
    \cup {[jobs EXCEPT ![i].conclusion = c] : i \in 1..Len(jobs), c \in {"failure", Null}}
    \cup {[i \in 1..Len(jobs) |-> Job(jobs[i].name, "cancelled")]}
    \cup {Append(jobs, Job(n, c)) :
            n \in {"deploy_api", "publish_evidence_pages"}, c \in {"success", "failure"}}

RECURSIVE JobListsWithin(_)
JobListsWithin(k) ==
    IF k = 0 THEN {AllJobsSucceeded}
    ELSE JobListsWithin(k - 1) \cup UNION {JobEdits(jobs) : jobs \in JobListsWithin(k - 1)}

\* the responses of GET /actions/runs/{id}: not ok, or a run
RunResponses ==
    {[ok |-> FALSE, head_sha |-> Undefined, conclusion |-> Undefined]}
    \cup {[ok |-> TRUE, head_sha |-> h, conclusion |-> c] :
             h \in {"def456", "abc123"}, c \in {"success", "failure", Null}}

\* the responses of GET /actions/runs/{id}/jobs
JobsResponses ==
    {[ok |-> FALSE, jobs |-> <<>>], [ok |-> TRUE, jobs |-> <<>>]}
    \cup {[ok |-> TRUE, jobs |-> jobs] : jobs \in JobListsWithin(MaxJobEdits)}

Artifact(name, expired) == [name |-> name, expired |-> expired]

\* the responses of GET /actions/runs/{id}/artifacts
ArtifactsResponses ==
    {[ok |-> FALSE, artifacts |-> <<>>]}
    \cup {[ok |-> TRUE, artifacts |-> a \o b] :
             a \in {<<>>, <<Artifact("compliance-test-evidence-101", FALSE)>>,
                    <<Artifact("compliance-test-evidence-101", TRUE)>>},
             b \in {<<>>, <<Artifact("policy-provenance-101", FALSE)>>,
                    <<Artifact("policy-provenance-101", TRUE)>>,
                    <<Artifact("policy-provenance-101", TRUE),
                      Artifact("policy-provenance-101", FALSE)>>}}

\* deployJobs.find((item) => item.name === requiredJob): its index, 0 when not found
FindJob(jobs, requiredJob) ==
    LET found == {i \in 1..Len(jobs) : jobs[i].name = requiredJob}
    IN IF found = {} THEN 0 ELSE CHOOSE i \in found : \A j \in found : i <= j

\* the violation of one required job, or Undefined
DeployFailure(jobs, requiredJob) ==
    IF FindJob(jobs, requiredJob) = 0 THEN "missing:" \o requiredJob
    ELSE IF jobs[FindJob(jobs, requiredJob)].conclusion # "success"
         THEN "conclusion:" \o requiredJob
    ELSE Undefined

RECURSIVE CollectDeployFailures(_, _)
CollectDeployFailures(jobs, i) ==
    IF i > Len(requiredDeployJobs) THEN <<>>
    ELSE (IF DeployFailure(jobs, requiredDeployJobs[i]) = Undefined THEN <<>>
          ELSE <<DeployFailure(jobs, requiredDeployJobs[i])>>)
         \o CollectDeployFailures(jobs, i + 1)

NoDeployFailures(jobs) == <<>>

\* a check that stops at the first violation
FirstDeployFailureOnly(jobs) ==
    IF CollectDeployFailures(jobs, 1) = <<>> THEN <<>>
    ELSE <<Head(CollectDeployFailures(jobs, 1))>>

\* deployFailures after the loop over requiredDeployJobs
deployFailures(jobs) == CollectDeployFailures(jobs, 1)

\* job.name.startsWith("publish_evidence")
StartsWithPublishEvidence(name) == name \in {"publish_evidence_pages"}

\* deployJobs.filter(...).map(normalizeJob)
RECURSIVE NormalizedJobs(_)
NormalizedJobs(jobs) ==
    IF jobs = <<>> THEN <<>>
    ELSE (IF StartsWithPublishEvidence(Head(jobs).name) THEN <<>> ELSE <<Head(jobs)>>)
         \o NormalizedJobs(Tail(jobs))

\* a listing that takes expired artifacts as available
ArtifactNamesWithExpired(artifacts) == {artifacts[i].name : i \in 1..Len(artifacts)}

\* artifactNames: the names of the artifacts that are not expired
ArtifactNames(artifacts) ==
    {artifacts[i].name : i \in {j \in 1..Len(artifacts) : ~artifacts[j].expired}}

\* the first of the two expected artifacts that is not in artifactNames, or Undefined
MissingArtifact(payload, artifacts) ==
    IF payload.ci_artifact_name \notin ArtifactNames(artifacts)
    THEN payload.ci_artifact_name
    ELSE IF payload.policy_artifact_name \notin ArtifactNames(artifacts)
    THEN payload.policy_artifact_name
    ELSE Undefined

IdleIngest ==
    [pc |-> "idle", runs |-> 0, token |-> TRUE, payload |-> ValidPayload,
     deployRun |-> [ok |-> FALSE, head_sha |-> Undefined, conclusion |-> Undefined],
     deployJobs |-> <<>>,
     ciRun |-> [ok |-> FALSE, head_sha |-> Undefined, conclusion |-> Undefined],
     ciArtifacts |-> <<>>,
     requests |-> <<>>, error |-> "none", detail |-> <<>>]

IngestFail(state, error, detail) ==
    [state EXCEPT !.pc = "failed", !.error = error, !.detail = detail]

\* run(): reads and checks the payload (up to the first API request)
IngestStart ==
    /\ ingest.pc \in {"idle", "done", "failed"}
    /\ ingest.runs < MaxIngestRuns
    /\ \E raw \in Payloads, token \in BOOLEAN :
          LET payload == parseDispatchPayload(raw)
              started == [IdleIngest EXCEPT !.runs = ingest.runs + 1, !.token = token,
                                            !.payload = payload]
          IN ingest' =
               IF FirstMissingKey(raw) # Undefined
               THEN IngestFail(started, "missingField", <<FirstMissingKey(raw)>>)
               ELSE IF payload.source_repo # expectedSourceRepo
               THEN IngestFail(started, "unexpectedSourceRepo", <<>>)
               ELSE IF ~ValidRunId(payload.ci_run_id)
               THEN IngestFail(started, "invalidRunId", <<"ci_run_id">>)
               ELSE IF ~ValidRunId(payload.deploy_run_id)
               THEN IngestFail(started, "invalidRunId", <<"deploy_run_id">>)
               ELSE [started EXCEPT !.pc = "deployRun"]
    /\ UNCHANGED <<fsVars, envEdits, mergeLog, ingestFile, composerVars, toolVars>>

\* ghApi: throws before the request without a token, and on a response that is not ok
GhApiError(state, response) ==
    IF ~state.token THEN "missingToken" ELSE IF ~response.ok THEN "apiRequestFailed" ELSE "ok"

Requested(state, request) ==
    IF state.token THEN [state EXCEPT !.requests = Append(@, request)] ELSE state

\* an ingest that does not compare the deploy run's commit with the payload's
HeadShaTrusted(run, payload) == FALSE

\* deployRun.head_sha !== payload.source_sha
DeployHeadShaDiffers(run, payload) == run.head_sha # payload.source_sha

\* the deploy run request and the checks on its response
IngestDeployRun ==
    /\ ingest.pc = "deployRun"
    /\ \E response \in RunResponses :
          LET state == [Requested(ingest, "deployRun") EXCEPT
                           !.deployRun = IF GhApiError(ingest, response) = "ok"
                                         THEN response ELSE @]
          IN ingest' =
               IF GhApiError(ingest, response) # "ok"
               THEN IngestFail(state, GhApiError(ingest, response), <<>>)
               ELSE IF DeployHeadShaDiffers(response, ingest.payload)
               THEN IngestFail(state, "deployHeadShaMismatch", <<>>)
               ELSE IF response.conclusion # "success"
               THEN IngestFail(state, "deployConclusion", <<>>)
               ELSE [state EXCEPT !.pc = "deployJobs"]
    /\ UNCHANGED <<fsVars, envEdits, mergeLog, ingestFile, composerVars, toolVars>>

\* the deploy jobs request and the required-job checks
IngestDeployJobs ==
    /\ ingest.pc = "deployJobs"
    /\ \E response \in JobsResponses :
          LET state == [Requested(ingest, "deployJobs") EXCEPT
                           !.deployJobs = IF GhApiError(ingest, response) = "ok"
                                          THEN response.jobs ELSE @]
          IN ingest' =
               IF GhApiError(ingest, response) # "ok"
               THEN IngestFail(state, GhApiError(ingest, response), <<>>)
               ELSE IF Len(deployFailures(response.jobs)) > 0
               THEN IngestFail(state, "deployJobs", deployFailures(response.jobs))
               ELSE [state EXCEPT !.pc = "ciRun"]
    /\ UNCHANGED <<fsVars, envEdits, mergeLog, ingestFile, composerVars, toolVars>>

\* the CI run request and the checks on its response
IngestCiRun ==
    /\ ingest.pc = "ciRun"
    /\ \E response \in RunResponses :
          LET state == [Requested(ingest, "ciRun") EXCEPT
                           !.ciRun = IF GhApiError(ingest, response) = "ok"
                                     THEN response ELSE @]
          IN ingest' =
               IF GhApiError(ingest, response) # "ok"
               THEN IngestFail(state, GhApiError(ingest, response), <<>>)
               ELSE IF response.head_sha # ingest.payload.source_sha
               THEN IngestFail(state, "ciHeadShaMismatch", <<>>)
               ELSE IF response.conclusion # "success"
               THEN IngestFail(state, "ciConclusion", <<>>)
               ELSE [state EXCEPT !.pc = "ciArtifacts"]
    /\ UNCHANGED <<fsVars, envEdits, mergeLog, ingestFile, composerVars, toolVars>>

\* the record written to out/ingest/falcon.json
IngestOutput(state) ==
    [exists |-> TRUE,
     commitSha |-> state.payload.source_sha,
     ci |-> [runId |-> RunIdString(ParseInt(state.payload.ci_run_id).value),
             conclusion |-> state.ciRun.conclusion],
     deploy |-> [runId |-> RunIdString(ParseInt(state.payload.deploy_run_id).value),
                 conclusion |-> state.deployRun.conclusion,
                 jobs |-> NormalizedJobs(state.deployJobs)]]

\* the CI artifacts request, the artifact checks, and the write of the ingest record
IngestCiArtifacts ==
    /\ ingest.pc = "ciArtifacts"
    /\ \E response \in ArtifactsResponses :
          LET state == [Requested(ingest, "ciArtifacts") EXCEPT
                           !.ciArtifacts = IF GhApiError(ingest, response) = "ok"
                                           THEN response.artifacts ELSE @]
              failed ==
                IF GhApiError(ingest, response) # "ok"
                THEN IngestFail(state, GhApiError(ingest, response), <<>>)
                ELSE IF MissingArtifact(ingest.payload, response.artifacts) # Undefined
                THEN IngestFail(state, "missingArtifact",
                                <<MissingArtifact(ingest.payload, response.artifacts)>>)
                ELSE [state EXCEPT !.pc = "done"]
          IN /\ ingest' = failed
             /\ ingestFile' = IF failed.pc = "done" THEN IngestOutput(state) ELSE ingestFile
    /\ UNCHANGED <<fsVars, envEdits, mergeLog, composerVars, toolVars>>

-----------------------------------------------------------------------------
(* The environment: what other steps of the workflow (artifact download,   *)
(* a hand-made or damaged bundle) may leave in the input files.            *)

\* one entry with one thing wrong (or unusual) in it
ApplyDefect(e, d) ==
    CASE d = "testIdEmpty" -> [e EXCEPT !.testId = ""]
      [] d = "suiteTypeBad" -> [e EXCEPT !.suiteType = "integration"]
      [] d = "resultBad" -> [e EXCEPT !.result = "skipped"]
      [] d = "resultFailed" -> [e EXCEPT !.result = "failed"]
      [] d = "executedAtBad" -> [e EXCEPT !.executedAt = "yesterday"]
      [] d = "assertionsEmpty" -> [e EXCEPT !.assertions = <<>>]
      [] d = "assertionFailed" -> [e EXCEPT !.assertions[1].status = "failed"]
      [] d = "lastAssertionFailed" ->
             [e EXCEPT !.assertions[Len(e.assertions)].status = "failed"]
      [] d = "assertionStatusBad" -> [e EXCEPT !.assertions[1].status = "skipped"]
      [] d = "assertionIdEmpty" -> [e EXCEPT !.assertions[1].assertionId = ""]
      [] d = "assertionIdDuplicate" ->
             [e EXCEPT !.assertions[Len(e.assertions)].assertionId = e.assertions[1].assertionId]
      [] d = "assertionNameEmpty" -> [e EXCEPT !.assertions[1].name = ""]
      [] d = "assertionExpectedEmpty" -> [e EXCEPT !.assertions[1].expected = Undefined]
      [] d = "assertionActualEmpty" -> [e EXCEPT !.assertions[1].actual = ""]
      [] d = "assertionVerifiedAtBad" -> [e EXCEPT !.assertions[1].verifiedAt = "yesterday"]
      [] d = "evidenceRefBad" -> [e EXCEPT !.assertions[1].evidenceRef.matcherType = "glob"]
      [] d = "artifactsEmpty" -> [e EXCEPT !.artifacts = <<>>]
      [] d = "noJsonArtifact" -> [e EXCEPT !.artifacts = <<e.artifacts[2]>>]
      [] d = "artifactFormatBad" -> [e EXCEPT !.artifacts[2].format = "xml"]
      [] d = "artifactPathEmpty" -> [e EXCEPT !.artifacts[1].path = <<>>]
      [] d = "artifactShaNotHex" -> [e EXCEPT !.artifacts[1].sha256 = NotHexSha]
      [] d = "artifactShaOther" ->
             [e EXCEPT !.artifacts[2].sha256 = sha256File(JunitXml(e.testId, "failed"))]
      [] d = "artifactPathUnknown" ->
             [e EXCEPT !.artifacts[1].path = <<"current", "tests", "unknown.json">>]
      [] d = "artifactPathRelative" ->
             [e EXCEPT !.artifacts[1].path = <<"tests", JsonName(e.testId)>>]
      [] d = "artifactPathNested" ->
             [e EXCEPT !.artifacts[1].path = <<"current", "tests", "sub", JsonName(e.testId)>>]
      [] d = "sourcePathEmpty" -> [e EXCEPT !.sourcePath = ""]
      [] d = "workflowPathEmpty" -> [e EXCEPT !.workflowPath = ""]
      [] d = "runIdEmpty" -> [e EXCEPT !.runId = ""]
      [] d = "jobNameEmpty" -> [e EXCEPT !.jobName = Undefined]
      [] d = "sourceCommitShaEmpty" -> [e EXCEPT !.sourceCommitSha = ""]
      [] d = "verificationCommandEmpty" -> [e EXCEPT !.verificationCommand = ""]

\* the defects the merge command can tell apart, and one it does not read
MergeDefects ==
    {"testIdEmpty", "suiteTypeBad", "resultBad", "resultFailed", "executedAtBad",
     "assertionsEmpty", "assertionFailed", "assertionStatusBad",
     "assertionIdEmpty", "assertionIdDuplicate", "sourcePathEmpty"}

ComposerDefects ==
    MergeDefects \cup
    {"lastAssertionFailed", "assertionNameEmpty", "assertionExpectedEmpty", "assertionActualEmpty",
     "assertionVerifiedAtBad", "evidenceRefBad", "artifactsEmpty", "noJsonArtifact",
     "artifactFormatBad", "artifactPathEmpty", "artifactShaNotHex", "artifactShaOther",
     "artifactPathUnknown", "artifactPathRelative", "artifactPathNested"}

\* the entries of a manifest that the environment changes: the first and the last
EditableEntries(entries) == {i \in 1..Len(entries) : i = 1 \/ i = Len(entries)}

\* the manifest with entry i changed by d, dropped, or repeated at the end
EditedEntries(entries, i, d) ==
    CASE d = "dropEntry" -> RemoveAt(entries, i)
      [] d = "repeatEntry" -> Append(entries, entries[i])
      [] OTHER -> [entries EXCEPT ![i] = ApplyDefect(entries[i], d)]

\* the defect changes a part the entry still has
DefectApplies(e, d) ==
    /\ d \in {"assertionFailed", "lastAssertionFailed", "assertionStatusBad",
              "assertionIdEmpty", "assertionIdDuplicate", "assertionNameEmpty",
              "assertionExpectedEmpty", "assertionActualEmpty", "assertionVerifiedAtBad",
              "evidenceRefBad"} => Len(e.assertions) >= 2
    /\ d \in {"noJsonArtifact", "artifactFormatBad", "artifactPathEmpty",
              "artifactShaNotHex", "artifactShaOther", "artifactPathUnknown",
              "artifactPathRelative", "artifactPathNested"} => Len(e.artifacts) >= 2

EnvEditEntry(dirs, defects) ==
    /\ envEdits < MaxEnvEdits
    /\ \E dir \in dirs :
          /\ manifests[dir].exists /\ manifests[dir].isArray
          /\ \E i \in EditableEntries(manifests[dir].testEvidence),
                d \in defects \cup {"dropEntry", "repeatEntry"} :
                /\ DefectApplies(manifests[dir].testEvidence[i], d)
                /\ manifests' = [manifests EXCEPT
                                    ![dir].testEvidence = EditedEntries(@, i, d)]
    /\ envEdits' = envEdits + 1
    /\ mergeLog' = <<>>
    /\ UNCHANGED <<testFiles, ingestFile, composerVars, ingest, toolVars>>

AllPassed(definitions, jobName) == ProducerEntries(definitions, {}, Undefined, jobName)

ExtraEntry ==
    ProducerEntry([testId |-> "extra-unit", sourcePath |-> "apps/api/src/extra.spec.ts",
                   suiteType |-> "unit",
                   assertions |-> <<AssertionDefinition("extra-one", "apps/api/src/extra.spec.ts"),
                                    AssertionDefinition("extra-two", "apps/api/src/extra.spec.ts")>>],
                  {}, Undefined, "Extra")

\* the manifests a download may place in a directory
PlacedManifests ==
    {NoManifest,
     [Manifest(<<>>) EXCEPT !.isArray = FALSE],
     Manifest(<<>>),
     Manifest(<<ExtraEntry>>),
     Manifest(AllPassed(testDefinitions, "Compliance Test Evidence (Public)")),
     Manifest(AllPassed(e2eDefinitions, "Integration And E2E Tests"))}

EnvPlaceManifest(dirs) ==
    /\ envEdits < MaxEnvEdits
    /\ \E dir \in dirs, m \in PlacedManifests :
          /\ manifests[dir] # m
          /\ manifests' = [manifests EXCEPT ![dir] = m]
    /\ envEdits' = envEdits + 1
    /\ mergeLog' = <<>>
    /\ UNCHANGED <<testFiles, ingestFile, composerVars, ingest, toolVars>>

\* what a changed artifact file may read as
Tampered(content) ==
    {NoContent,
     [content EXCEPT !.result = "failed"],
     [content EXCEPT !.testId = "extra-unit"],
     [content EXCEPT !.assertions = <<>>]} \ {content}

\* the artifact files of the entries the environment changes
EditableFiles(entries) ==
    UNION {{<<"tests", JsonName(entries[i].testId)>>, <<"tests", JunitName(entries[i].testId)>>}
           : i \in EditableEntries(entries)} \cap TestFilePaths

EnvEditTestFile ==
    /\ envEdits < MaxEnvEdits
    /\ \/ \E p \in EditableFiles(manifests[RootDir].testEvidence) :
             \E c \in Tampered(testFiles[p]) : testFiles' = [testFiles EXCEPT ![p] = c]
       \/ \E p \in EditableFiles(manifests[RootDir].testEvidence) :
             /\ <<"tests", "sub", p[2]>> \in TestFilePaths
             /\ \E c \in {testFiles[p]} \cup Tampered(testFiles[p]) :
                   /\ c # NoContent
                   /\ testFiles' = [testFiles EXCEPT ![<<"tests", "sub", p[2]>>] = c]
    /\ envEdits' = envEdits + 1
    /\ UNCHANGED <<manifests, mergeLog, ingestFile, composerVars, ingest, toolVars>>

-----------------------------------------------------------------------------
(* HistorySnapshotter: copies current/ into history/<snapshot name> and    *)
(* keeps history/index.json.                                               *)

MaxHistoryRuns == 2

NaN == "<NaN>"

\* a Date whose getTime() is NaN
InvalidDate == [date |-> <<>>, time |-> <<>>, ms |-> NaN]

\* new Date(value) for the values the model uses: the UTC fields of the instant, or
\* an invalid Date for a value that is no date
DateOf(value) ==
    CASE value \in {"2026-02-28T21:44:29.000Z", "2026-02-28T21:44:29Z"} ->
            [date |-> <<"2026", "02", "28">>, time |-> <<"21", "44", "29">>, ms |-> "000"]
      [] value \in {"2026-02-28T21:44:29.123Z", "2026-02-28T22:44:29.123+01:00"} ->
            [date |-> <<"2026", "02", "28">>, time |-> <<"21", "44", "29">>, ms |-> "123"]
      [] OTHER -> InvalidDate

\* Date.prototype.toISOString(), as the sequence of its fields and separators
toISOString(d) ==
    <<d.date[1], "-", d.date[2], "-", d.date[3], "T",
      d.time[1], ":", d.time[2], ":", d.time[3], ".", d.ms, "Z">>

\* String.prototype.replaceAll(t, "") for a separator t
replaceAll(tokens, t) == SelectSeq(tokens, LAMBDA x : x # t)

\* String.prototype.replace(pattern, ""): the first occurrence only
RECURSIVE replace(_, _)
replace(tokens, pattern) ==
    IF Len(tokens) < Len(pattern) THEN tokens
    ELSE IF SubSeq(tokens, 1, Len(pattern)) = pattern
         THEN SubSeq(tokens, Len(pattern) + 1, Len(tokens))
         ELSE <<Head(tokens)>> \o replace(Tail(tokens), pattern)

RECURSIVE Join(_)
Join(tokens) == IF tokens = <<>> THEN "" ELSE Head(tokens) \o Join(Tail(tokens))

formatSnapshotTimestamp(value) ==
    IF DateOf(value) = InvalidDate THEN NaN
    ELSE Join(replace(replaceAll(replaceAll(toISOString(DateOf(value)), "-"), ":"),
                      <<".", "000">>))

\* String(commitSha).slice(0, 12) for the values the model uses
ShortSha(commitSha) ==
    CASE commitSha = "4f9c2d7a1b3e8a6c5d0f" -> "4f9c2d7a1b3e"
      [] commitSha = "4f9c2d7a1b3e0e1f2a3b" -> "4f9c2d7a1b3e"
      [] commitSha = "9a8b7c6d5e4f3a2b1c0d" -> "9a8b7c6d5e4f"
      [] OTHER -> commitSha

\* evidence.source?.commitSha ?? "unknown"
SnapshotCommitSha(evidence) ==
    IF evidence.commitSha = Undefined THEN "unknown" ELSE evidence.commitSha

SnapshotName(evidence) ==
    formatSnapshotTimestamp(evidence.generatedAt) \o "-" \o ShortSha(SnapshotCommitSha(evidence))

\* current/evidence.json: the fields the snapshotter reads
NoCurrentEvidence == [exists |-> FALSE, generatedAt |-> Undefined, commitSha |-> Undefined]

CurrentEvidence(generatedAt, commitSha) ==
    [exists |-> TRUE, generatedAt |-> generatedAt, commitSha |-> commitSha]

\* publications of current/evidence.json: whole and fractional seconds, the same instant
\* written in several ways, commits that share their first twelve characters
CurrentEvidenceDocuments ==
    {NoCurrentEvidence, CurrentEvidence(Undefined, "4f9c2d7a1b3e8a6c5d0f")} \cup
    {CurrentEvidence("2026-02-28T21:44:29.000Z", c) :
        c \in {"4f9c2d7a1b3e8a6c5d0f", "4f9c2d7a1b3e0e1f2a3b", "9a8b7c6d5e4f3a2b1c0d", Undefined}} \cup
    {CurrentEvidence("2026-02-28T21:44:29.123Z", c) :
        c \in {"4f9c2d7a1b3e8a6c5d0f", "4f9c2d7a1b3e0e1f2a3b"}} \cup
    {CurrentEvidence(g, "4f9c2d7a1b3e8a6c5d0f") :
        g \in {"2026-02-28T21:44:29Z", "2026-02-28T22:44:29.123+01:00"}}

\* the other files of current/ that a snapshot copies
CurrentExtras == {"deploy-run.json", "trust-evidence.md", "store-compliance.md", "tests"}

CurrentDirs ==
    {[evidence |-> e, extras |-> IF e.exists THEN CurrentExtras ELSE {}] :
        e \in CurrentEvidenceDocuments} \cup
    {[evidence |-> CurrentEvidence("2026-02-28T21:44:29.000Z", "4f9c2d7a1b3e8a6c5d0f"),
      extras |-> {}]}

\* history/index.json
NoIndex == [exists |-> FALSE, snapshots |-> <<>>]

EmptyHistory ==
    [current |-> [evidence |-> NoCurrentEvidence, extras |-> {}],
     dirs |-> <<>>, index |-> NoIndex, runs |-> 0, error |-> ""]

loadHistoryIndex(h) == IF ~h.index.exists THEN <<>> ELSE h.index.snapshots

KeepEverySnapshot(snapshots, snapshotName) == snapshots

\* snapshots.filter((item) => item.snapshot !== `history/${snapshotName}`)
WithoutSnapshot(snapshots, snapshotName) ==
    SelectSeq(snapshots, LAMBDA item : item.snapshot # "history/" \o snapshotName)

\* rmSync, mkdirSync and the five copyIfExists calls
SnapshotDirs(h, snapshotName) ==
    [n \in DOMAIN h.dirs \cup {snapshotName} |->
        IF n = snapshotName
        THEN [evidence |-> h.current.evidence, extras |-> h.current.extras]
        ELSE h.dirs[n]]

\* an index that adds the new entry at the end
PushLast(snapshots, item) == Append(snapshots, item)

\* snapshots.unshift(item)
unshift(snapshots, item) == <<item>> \o snapshots

HistoryEntry(evidence) ==
    [snapshot |-> "history/" \o SnapshotName(evidence),
     generatedAt |-> evidence.generatedAt,
     sourceCommitSha |-> SnapshotCommitSha(evidence)]

HistoryFail(error) ==
    /\ history' = [history EXCEPT !.runs = @ + 1, !.error = error]

\* snapshot-history: run()
HistoryRun ==
    /\ history.runs < MaxHistoryRuns
    /\ IF ~history.current.evidence.exists
       THEN HistoryFail("missingCurrentEvidence")
       ELSE IF formatSnapshotTimestamp(history.current.evidence.generatedAt) = NaN
       THEN HistoryFail("invalidGeneratedAt")
       ELSE LET evidence == history.current.evidence
                snapshotName == SnapshotName(evidence)
            IN  history' = [history EXCEPT
                    !.dirs = SnapshotDirs(history, snapshotName),
                    !.index = [exists |-> TRUE,
                               snapshots |->
                                   unshift(WithoutSnapshot(loadHistoryIndex(history),
                                                           snapshotName),
                                           HistoryEntry(evidence))],
                    !.runs = @ + 1,
                    !.error = ""]
    /\ UNCHANGED <<fsVars, envEdits, mergeLog, ingestFile, composerVars, ingest, signer, producers, cli,
                   verifier>>

\* a composer run publishes another current/ between two snapshots
EnvPublishCurrent ==
    /\ \E dir \in CurrentDirs :
          /\ dir # history.current
          /\ history' = [history EXCEPT !.current = dir]
    /\ UNCHANGED <<fsVars, envEdits, mergeLog, ingestFile, composerVars, ingest, signer, producers, cli,
                   verifier>>

-----------------------------------------------------------------------------
(* Policy signer: signs the policy file named by policy/version.json and   *)
(* records its hash in that manifest.                                      *)

MaxSignerRuns == 2

\* a PEM text: the key it encodes, its line ends ("escaped" is the two characters \n),
\* and whether white space surrounds it (an exported PEM ends with a line feed)
Pem(kind, key, eol, padded) == [kind |-> kind, key |-> key, eol |-> eol, padded |-> padded]

NoPem == Pem("absent", "", "LF", FALSE)
BlankPem == Pem("blank", "", "LF", TRUE)
GarbagePem == Pem("garbage", "", "LF", FALSE)

\* privateKeyRaw.replaceAll("\\n", "\n")
UnescapeLineEnds(pem) == IF pem.eol = "escaped" THEN [pem EXCEPT !.eol = "LF"] ELSE pem

\* value.replaceAll("\r\n", "\n").trim()
normalizePem(pem) ==
    [pem EXCEPT !.eol = IF @ = "CRLF" THEN "LF" ELSE @, !.padded = FALSE]

\* createPrivateKey({key: pem, format: "pem"}) returns a key
IsPrivateKey(pem) == pem.kind = "private" /\ pem.eol \in {"LF", "CRLF"}

\* createPublicKey(privateKey).export({type: "spki", format: "pem"}).toString()
buildPublicKeyPem(privateKey) == Pem("public", privateKey.key, "LF", TRUE)

sha256Hex(content) == "sha256:" \o content

\* createSign("RSA-SHA256"): the signature binds the content to the signing key
signContent(content, privateKey) == [content |-> content, key |-> privateKey.key]

\* verifier.verify(publicKeyPem, signature)
Verified(content, signature, publicKeyPem) ==
    /\ publicKeyPem.kind = "public"
    /\ signature.key = publicKeyPem.key
    /\ signature.content = content

NoSignature == [content |-> Undefined, key |-> ""]

\* policy/version.json
NoPolicyManifest == [exists |-> FALSE, sha256 |-> Undefined, updatedAt |-> Undefined]

PolicyManifest(sha256, updatedAt) == [exists |-> TRUE, sha256 |-> sha256, updatedAt |-> updatedAt]

PolicyContents == {"policy-v1", "policy-v2"}

IdleSigner ==
    [privateKeyRaw |-> NoPem, manifest |-> NoPolicyManifest, policyContent |-> Undefined,
     storedPublicKeyPem |-> NoPem, signatureFile |-> NoSignature, runs |-> 0, error |-> ""]

\* POLICY_SIGNING_PRIVATE_KEY: unset, blank, a key with escaped or real line ends,
\* another key, a text that is no key
PrivateKeyValues ==
    {NoPem, BlankPem, GarbagePem, Pem("private", "A", "escaped", FALSE),
     Pem("private", "A", "LF", TRUE), Pem("private", "B", "LF", TRUE)}

\* the public key file: missing, the key of A in three renderings, the key of B
StoredPublicKeyValues ==
    {NoPem, Pem("public", "A", "LF", TRUE), Pem("public", "A", "CRLF", TRUE),
     Pem("public", "A", "LF", FALSE), Pem("public", "B", "LF", TRUE)}

SignerInputs ==
    {[IdleSigner EXCEPT !.privateKeyRaw = k, !.manifest = m, !.policyContent = p,
                        !.storedPublicKeyPem = s, !.signatureFile = g] :
        k \in PrivateKeyValues,
        m \in {NoPolicyManifest, PolicyManifest(sha256Hex("policy-v1"), "2026-02-28T19:03:13.000Z")},
        p \in {Undefined, "policy-v1"},
        s \in StoredPublicKeyValues,
        g \in {NoSignature, signContent("policy-v1", Pem("private", "A", "LF", TRUE))}}

SignerFail(error) ==
    signer' = [signer EXCEPT !.runs = @ + 1, !.error = error]

KeysDiffer(derivedPublicKeyPem, storedPublicKeyPem) ==
    normalizePem(derivedPublicKeyPem) # normalizePem(storedPublicKeyPem)

SignerChecksSkipped(privateKey, content, storedPublicKeyPem) == ""

\* the two checks between signing and writing: the message of the one that fails
SignerCheckError(privateKey, content, storedPublicKeyPem) ==
    IF KeysDiffer(buildPublicKeyPem(privateKey), storedPublicKeyPem) THEN "keyMismatch"
    ELSE IF ~Verified(content, signContent(content, privateKey), storedPublicKeyPem)
         THEN "notVerified"
         ELSE ""

\* sign-policy-package: run()
SignerRun ==
    /\ signer.runs < MaxSignerRuns
    /\ LET privateKey == UnescapeLineEnds(signer.privateKeyRaw)
           content == signer.policyContent
       IN  IF signer.privateKeyRaw.kind \in {"absent", "blank"}
           THEN SignerFail("privateKeyRequired")
           ELSE IF ~signer.manifest.exists THEN SignerFail("manifestMissing")
           ELSE IF content = Undefined THEN SignerFail("policyMissing")
           ELSE IF signer.storedPublicKeyPem.kind = "absent" THEN SignerFail("publicKeyMissing")
           ELSE IF ~IsPrivateKey(privateKey) THEN SignerFail("invalidPrivateKey")
           ELSE IF SignerCheckError(privateKey, content, signer.storedPublicKeyPem) # ""
           THEN SignerFail(SignerCheckError(privateKey, content, signer.storedPublicKeyPem))
           ELSE signer' = [signer EXCEPT
                    !.signatureFile = signContent(content, privateKey),
                    !.manifest = PolicyManifest(sha256Hex(content), NowIso),
                    !.runs = @ + 1,
                    !.error = ""]
    /\ UNCHANGED <<fsVars, envEdits, mergeLog, ingestFile, composerVars, ingest, history, producers, cli,
                   verifier>>

\* the policy file is edited between two runs of the signer
EnvEditPolicy ==
    /\ signer.policyContent # Undefined
    /\ \E p \in PolicyContents \ {signer.policyContent} :
          signer' = [signer EXCEPT !.policyContent = p]
    /\ UNCHANGED <<fsVars, envEdits, mergeLog, ingestFile, composerVars, ingest, history, producers, cli,
                   verifier>>

HistoryIdle == history = EmptyHistory

SignerIdle == signer = IdleSigner

-----------------------------------------------------------------------------
(* The two producers step by step, as two processes on one working         *)
(* directory: each reads its environment and removes its output root,      *)
(* makes its tests directory, writes the artifacts of one test after the   *)
(* other, and writes its manifest.                                         *)

ProducerIds == {"unit", "e2e"}

IdleProducer ==
    [pc |-> "idle", rawResult |-> Undefined, unmatched |-> {}, unreadable |-> {},
     entries |-> <<>>]

IdleProducers == [unit |-> IdleProducer, e2e |-> IdleProducer, dirs |-> {}]

\* values of EVIDENCE_RESULT: unset, the two the producers name, and the conclusion
\* GitHub reports for a failed job
EvidenceResults == {Undefined, "passed", "failed", "failure"}

ProducerDefinitions(p) == IF p = "unit" THEN testDefinitions ELSE e2eDefinitions

ProducerJobName(p) ==
    IF p = "unit" THEN "Compliance Test Evidence (Public)" ELSE "Integration And E2E Tests"

\* outputRoot, relative to out/test-evidence, and the directories below it
ProducerDir(p) == IF p = "unit" THEN RootDir ELSE E2eDir

ProducerPrefix(p) == IF p = "unit" THEN <<>> ELSE <<"e2e">>

ProducerTestsDir(p) == IF p = "unit" THEN "tests" ELSE "e2e/tests"

\* an assertion of the producer's first test whose matcher may fail to match
ProducerUnmatched(p) == {{}, {ProducerDefinitions(p)[1].assertions[1].assertionId}}

\* a source file of the producer's second test that may be missing from the checkout
ProducerUnreadable(p) == {{}, {ProducerDefinitions(p)[2].assertions[1].filePath}}

\* evaluateAssertions: readFileSync throws on a source file that cannot be read
ReadFileThrows(definitions, unreadable) ==
    \E i \in 1..Len(definitions) : definitions[i].filePath \in unreadable

\* the path is outputRoot or lies below it
UnderOutputRoot(p, path) == p = "unit" \/ (Len(path) > 0 /\ path[1] = "e2e")

\* reads the environment, then rmSync(outputRoot, {recursive: true, force: true})
ProducerStart(p) ==
    /\ producers[p].pc = "idle"
    /\ \E rawResult \in EvidenceResults, unmatched \in ProducerUnmatched(p),
          unreadable \in ProducerUnreadable(p) :
          producers' = [producers EXCEPT
              ![p] = [pc |-> "mkdir", rawResult |-> rawResult, unmatched |-> unmatched,
                      unreadable |-> unreadable, entries |-> <<>>],
              !.dirs = IF p = "unit" THEN {} ELSE @ \ {"e2e", "e2e/tests"}]
    /\ manifests' = [d \in ManifestDirs |->
                        IF p = "unit" \/ d = E2eDir THEN NoManifest ELSE manifests[d]]
    /\ testFiles' = [path \in TestFilePaths |->
                        IF UnderOutputRoot(p, path) THEN NoContent ELSE testFiles[path]]
    /\ UNCHANGED <<envEdits, mergeLog, ingestFile, composerVars, ingest, history, signer, cli,
                   verifier>>

\* mkdirSync(outputTestsDir, {recursive: true})
ProducerMkdir(p) ==
    /\ producers[p].pc = "mkdir"
    /\ producers' = [producers EXCEPT
          ![p].pc = "write",
          !.dirs = @ \cup (IF p = "unit" THEN {"tests"} ELSE {"e2e", "e2e/tests"})]
    /\ UNCHANGED <<fsVars, envEdits, mergeLog, ingestFile, composerVars, ingest, history, signer, cli,
                   verifier>>

\* one pass of the loop over the definitions: the assertions of the next test, its two
\* artifact files and its entry; readFileSync throws on a source file that cannot be
\* read, writeFileSync throws when the tests directory is gone
ProducerWriteTest(p) ==
    /\ producers[p].pc = "write"
    /\ Len(producers[p].entries) < Len(ProducerDefinitions(p))
    /\ IF \/ ReadFileThrows(ProducerDefinitions(p)[Len(producers[p].entries) + 1].assertions,
                            producers[p].unreadable)
          \/ ProducerTestsDir(p) \notin producers.dirs
       THEN /\ producers' = [producers EXCEPT ![p].pc = "failed"]
            /\ UNCHANGED fsVars
       ELSE LET entry == ProducerEntry(ProducerDefinitions(p)[Len(producers[p].entries) + 1],
                                       producers[p].unmatched, producers[p].rawResult,
                                       ProducerJobName(p))
            IN  /\ testFiles' = ProducerFiles(ProducerPrefix(p), <<entry>>, testFiles)
                /\ producers' = [producers EXCEPT ![p].entries = Append(@, entry)]
                /\ UNCHANGED manifests
    /\ UNCHANGED <<envEdits, mergeLog, ingestFile, composerVars, ingest, history, signer, cli,
                   verifier>>

\* writeFileSync(outputManifestPath, ...)
ProducerWriteManifest(p) ==
    /\ producers[p].pc = "write"
    /\ Len(producers[p].entries) = Len(ProducerDefinitions(p))
    /\ IF p = "e2e" /\ "e2e" \notin producers.dirs
       THEN /\ producers' = [producers EXCEPT ![p].pc = "failed"]
            /\ UNCHANGED manifests
       ELSE /\ manifests' = [manifests EXCEPT ![ProducerDir(p)] = Manifest(producers[p].entries)]
            /\ producers' = [producers EXCEPT ![p].pc = "done"]
    /\ UNCHANGED <<testFiles, envEdits, mergeLog, ingestFile, composerVars, ingest, history, signer, cli,
                   verifier>>

ProducersIdle == producers = IdleProducers


-----------------------------------------------------------------------------
(* validate-test-evidence: the checks of the merged manifest and of the    *)
(* artifact files it names, in the order of the code.                      *)

defaultRequiredTestIds ==
    << "permission-analyzer-unit", "ttl-indexes-persistence-unit", "ttl-indexes-api-unit",
       "device-sync-e2e", "sos-e2e" >>

\* resolveArtifactPath with testsDir = out/test-evidence/tests, as a path relative to
\* out/test-evidence: a path that does not start with current/tests/ is taken from the
\* working directory, two levels above
resolveArtifactPath(artifactPath) ==
    IF StartsWithCurrentTests(artifactPath)
    THEN <<"tests", Basename(artifactPath)>>
    ELSE IF Len(artifactPath) >= 2 /\ artifactPath[1] = "out"
            /\ artifactPath[2] = "test-evidence"
    THEN SubSeq(artifactPath, 3, Len(artifactPath))
    ELSE <<"..", "..">> \o artifactPath

\* a validator that takes every listed artifact on trust
ValidatorArtifactUnchecked(entry, artifact, files) == "ok"

\* the checks of one artifact of an entry: "ok" or the first ensure() that throws
ValidatorArtifactError(entry, artifact, files) ==
    LET artifactLocalPath == resolveArtifactPath(artifact.path)
        artifactPayload == ReadTestFile(files, artifactLocalPath)
    IN IF artifact.format \notin {"json", "junit"} THEN "artifactFormat"
       ELSE IF Len(artifact.path) = 0 THEN "artifactPath"
       ELSE IF ~artifact.sha256.hex THEN "artifactSha256"
       ELSE IF ~ExistsTestFile(files, artifactLocalPath) THEN "artifactNotFound"
       ELSE IF sha256File(artifactPayload) # artifact.sha256 THEN "sha256Mismatch"
       ELSE IF artifact.format # "json" THEN "ok"
       ELSE IF artifactPayload.testId # entry.testId THEN "artifactTestId"
       ELSE IF artifactPayload.result # entry.result THEN "artifactResult"
       ELSE IF Len(artifactPayload.assertions) = 0 THEN "artifactAssertions"
       ELSE FirstAssertionError(artifactPayload.assertions)

\* the sourceCommitSha check of the validator
CommitShaTooShort(sourceCommitSha) ==
    ~(sourceCommitSha # Undefined /\ Len(sourceCommitSha) >= 7)

\* the body of the loop over manifest.testEvidence for one entry
ValidatorEntryError(entry, seenTestIds, files) ==
    LET badArtifacts == {i \in 1..Len(entry.artifacts) :
                            ValidatorArtifactError(entry, entry.artifacts[i], files) # "ok"}
    IN IF ~IsNonEmptyString(entry.testId) THEN "testId"
       ELSE IF entry.testId \in seenTestIds THEN "duplicate"
       ELSE IF ~IsNonEmptyString(entry.sourcePath) THEN "sourcePath"
       ELSE IF entry.suiteType \notin {"unit", "e2e"} THEN "suiteType"
       ELSE IF entry.result \notin {"passed", "failed"} THEN "result"
       ELSE IF ~IsNonEmptyString(entry.workflowPath) THEN "workflowPath"
       ELSE IF ~IsNonEmptyString(entry.runId) THEN "runId"
       ELSE IF ~IsNonEmptyString(entry.jobName) THEN "jobName"
       ELSE IF CommitShaTooShort(entry.sourceCommitSha) THEN "sourceCommitSha"
       ELSE IF ~DateParseIsFinite(entry.executedAt) THEN "executedAt"
       ELSE IF ~IsNonEmptyString(entry.verificationCommand) THEN "verificationCommand"
       ELSE IF Len(entry.assertions) = 0 THEN "assertions"
       ELSE IF FirstAssertionError(entry.assertions) # "ok"
            THEN FirstAssertionError(entry.assertions)
       ELSE IF entry.result = "passed" /\ FailedAssertionCount(entry) # 0
            THEN "failedAssertions"
       ELSE IF Len(entry.artifacts) = 0 THEN "artifacts"
       ELSE IF \A i \in 1..Len(entry.artifacts) : entry.artifacts[i].format # "json"
            THEN "missingJsonArtifact"
       ELSE IF badArtifacts # {}
            THEN ValidatorArtifactError(entry,
                     entry.artifacts[CHOOSE i \in badArtifacts : \A j \in badArtifacts : i <= j],
                     files)
       ELSE "ok"

ValidatorResult(error, testId) == [error |-> error, testId |-> testId]

RECURSIVE ValidatorLoop(_, _, _, _)
ValidatorLoop(testEvidence, i, seenTestIds, files) ==
    IF i > Len(testEvidence)
    THEN IF FirstMissing(defaultRequiredTestIds, seenTestIds) # Undefined
         THEN ValidatorResult("missing", FirstMissing(defaultRequiredTestIds, seenTestIds))
         ELSE ValidatorResult("ok", Undefined)
    ELSE IF ValidatorEntryError(testEvidence[i], seenTestIds, files) # "ok"
         THEN ValidatorResult(ValidatorEntryError(testEvidence[i], seenTestIds, files),
                              testEvidence[i].testId)
         ELSE ValidatorLoop(testEvidence, i + 1, seenTestIds \cup {testEvidence[i].testId},
                            files)

\* runValidateTestEvidence on out/test-evidence/compliance-test-evidence-manifest.json
runValidateTestEvidence(tree, files) ==
    LET manifest == tree[RootDir]
    IN IF ~manifest.exists THEN ValidatorResult("manifestNotFound", Undefined)
       ELSE IF ~DateParseIsFinite(manifest.generatedAt)
            THEN ValidatorResult("generatedAt", Undefined)
       ELSE IF ~manifest.isArray THEN ValidatorResult("notArray", Undefined)
       ELSE IF Len(manifest.testEvidence) = 0 THEN ValidatorResult("empty", Undefined)
       ELSE ValidatorLoop(manifest.testEvidence, 1, {}, files)

-----------------------------------------------------------------------------
(* The toolkit CLI: one process per command line, the handlers run with    *)
(* every environment option unset and every asserted source file matching. *)

MaxCliRuns == 4

\* the own keys of the handlers object
handlers ==
    {"build-policy-input", "run-test-evidence", "run-e2e-test-evidence",
     "merge-test-evidence-manifests", "validate-test-evidence"}

\* members that every object literal inherits from Object.prototype: functions, and
\* __proto__, whose value is an object
ObjectPrototypeFunctions == {"toString", "constructor", "hasOwnProperty", "valueOf"}

ObjectPrototypeKeys == ObjectPrototypeFunctions \cup {"__proto__"}

\* command in handlers: own and inherited keys
InHandlers(command) == command \in handlers \cup ObjectPrototypeKeys

OwnHandlersOnly(command) == command \in handlers

\* the guard of run(): !command || !(command in handlers)
PrintsUsage(command) == command = Undefined \/ command = "" \/ ~InHandlers(command)

\* process.argv[2]
CommandArguments ==
    handlers \cup {Undefined, "", "unknown-command", "toString", "__proto__"}

CliResult(argument, usage, exitCode, invoked, error) ==
    [argument |-> argument, usage |-> usage, exitCode |-> exitCode, invoked |-> invoked,
     error |-> error]

IdleCli ==
    [runs |-> 0, commands |-> <<>>, policyInput |-> FALSE,
     last |-> CliResult(Undefined, FALSE, 0, Undefined, "")]

\* the process ends: status 1 when the handler has thrown, else 0
CliExit(argument, invoked, error) ==
    cli' = [cli EXCEPT
               !.runs = @ + 1,
               !.commands = IF invoked \in handlers
                            THEN Append(@, [command |-> invoked, error |-> error])
                            ELSE @,
               !.policyInput = @ \/ invoked = "build-policy-input",
               !.last = CliResult(argument, FALSE, IF error = "" THEN 0 ELSE 1, invoked, error)]

\* cli.ts: run()
CliRun ==
    /\ cli.runs < MaxCliRuns
    /\ \E command \in CommandArguments :
          IF PrintsUsage(command)
          THEN /\ cli' = [cli EXCEPT !.runs = @ + 1,
                                     !.last = CliResult(command, TRUE, 1, Undefined, "")]
               /\ UNCHANGED <<fsVars, mergeLog>>
          ELSE IF command = "run-test-evidence"
          THEN TestEvidenceWritten({}, Undefined) /\ CliExit(command, command, "")
          ELSE IF command = "run-e2e-test-evidence"
          THEN E2eTestEvidenceWritten({}, Undefined) /\ CliExit(command, command, "")
          ELSE IF command = "merge-test-evidence-manifests"
          THEN /\ MergedManifestWritten
               /\ UNCHANGED testFiles
               /\ CliExit(command, command,
                          IF mergeLog'[Len(mergeLog')].outcome.ok THEN ""
                          ELSE mergeLog'[Len(mergeLog')].outcome.kind)
          ELSE IF command = "validate-test-evidence"
          THEN /\ CliExit(command, command,
                          IF runValidateTestEvidence(manifests, testFiles).error = "ok" THEN ""
                          ELSE runValidateTestEvidence(manifests, testFiles).error)
               /\ UNCHANGED <<fsVars, mergeLog>>
          ELSE IF command = "build-policy-input"
          THEN CliExit(command, command, "") /\ UNCHANGED <<fsVars, mergeLog>>
          ELSE IF command \in ObjectPrototypeFunctions
          THEN /\ CliExit(command, "Object.prototype." \o command, "")
               /\ UNCHANGED <<fsVars, mergeLog>>
          ELSE CliExit(command, Undefined, "TypeError") /\ UNCHANGED <<fsVars, mergeLog>>
    /\ UNCHANGED <<envEdits, ingestFile, composerVars, ingest, history, signer, producers,
                   verifier>>

\* cli.ts: run() with the command validate-test-evidence
ValidatorRun ==
    /\ cli.runs < MaxCliRuns
    /\ CliExit("validate-test-evidence", "validate-test-evidence",
               IF runValidateTestEvidence(manifests, testFiles).error = "ok" THEN ""
               ELSE runValidateTestEvidence(manifests, testFiles).error)
    /\ UNCHANGED <<fsVars, envEdits, mergeLog, ingestFile, composerVars, ingest, history,
                   signer, producers, verifier>>

CliIdle == cli = IdleCli


-----------------------------------------------------------------------------
(* verify-current.sh: the public verifier, run on a published evidence     *)
(* document and the files the raw base URL serves.                         *)

MaxVerifierRuns == 1

\* a served file: what jq reads out of it, and what ajv says of it against
\* test-artifact.schema.json
Served(name, assertions, schemaValid) ==
    [name |-> name, exists |-> TRUE, assertions |-> assertions, schemaValid |-> schemaValid]

NotServed == [name |-> "", exists |-> FALSE, assertions |-> <<>>, schemaValid |-> FALSE]

\* shasum -a 256 of a served file: one digest per content
ServedSha(file) == "sha256:" \o file.name

ServedJsonFiles ==
    {NotServed,
     Served("all-passed", <<"passed", "passed">>, TRUE),
     Served("one-failed", <<"passed", "failed">>, TRUE),
     Served("no-assertions", <<>>, TRUE),
     Served("off-schema", <<"passed", "passed">>, FALSE)}

ServedJunit == Served("junit", <<>>, TRUE)

\* curl -fsSL "${RAW_BASE_URL}/${artifact_path}"
Download(v, artifactPath) ==
    IF artifactPath \in {"current/tests/a.json", "history/tests/a.json"} THEN v.servedJson
    ELSE IF artifactPath = "current/tests/a.junit.xml" THEN ServedJunit
    ELSE NotServed

\* [[ "${artifact_path}" == current/tests/*.json ]] for the paths the model uses
MatchesCurrentTestsJson(artifactPath) == artifactPath = "current/tests/a.json"

PublishedArtifact(format, artifactPath, sha256) ==
    [format |-> format, path |-> artifactPath, sha256 |-> sha256]

PublishedEntry(assertions, artifacts) == [assertions |-> assertions, artifacts |-> artifacts]

\* lists of artifacts of a published entry: the JSON artifact under current/tests or
\* elsewhere, with the digest of a served content, another digest, or none
PublishedArtifactLists ==
    {<<PublishedArtifact("json", p, s),
       PublishedArtifact("junit", "current/tests/a.junit.xml", ServedSha(ServedJunit))>> :
        p \in {"current/tests/a.json", "history/tests/a.json", ""},
        s \in {"sha256:all-passed", "sha256:one-failed", ""}}

PublishedEntries ==
    {PublishedEntry(a, l) :
        a \in {<<"passed", "passed">>, <<"passed", "failed">>, <<>>},
        l \in PublishedArtifactLists}

GoodEntry ==
    PublishedEntry(<<"passed", "passed">>,
        <<PublishedArtifact("json", "current/tests/a.json", "sha256:all-passed"),
          PublishedArtifact("junit", "current/tests/a.junit.xml", ServedSha(ServedJunit))>>)

PublishedTestEvidence ==
    {<<>>} \cup {<<e>> : e \in PublishedEntries} \cup {<<GoodEntry, e>> : e \in PublishedEntries}

AssertionSummaries ==
    {[total |-> 2, passed |-> 2, failed |-> 0], [total |-> 2, passed |-> 1, failed |-> 1],
     [total |-> 1, passed |-> 2, failed |-> 0]}

IdleVerifier ==
    [testEvidence |-> <<>>, assertionSummary |-> [total |-> 0, passed |-> 0, failed |-> 0],
     schemaValid |-> FALSE, servedJson |-> NotServed, rest |-> "ok",
     runs |-> 0, outcome |-> ""]

\* schemaValid: what ajv says of the parts of evidence.json other than the artifacts;
\* rest: the policy package checksum and the cosign commands
VerifierInputs ==
    {[IdleVerifier EXCEPT !.testEvidence = t, !.assertionSummary = s, !.schemaValid = v,
                          !.servedJson = j, !.rest = r] :
        t \in PublishedTestEvidence, s \in AssertionSummaries, v \in BOOLEAN,
        j \in ServedJsonFiles, r \in {"ok", "policyChecksum", "cosign"}}

\* the rows of jq -r '.testEvidence[]? | .artifacts[]? | [.path, .sha256] | @tsv'
ArtifactRows(testEvidence) ==
    Flatten([i \in 1..Len(testEvidence) |-> testEvidence[i].artifacts])

\* the row is skipped: [[ -z "${artifact_path}" || -z "${artifact_sha}" ]]
RowSkipped(row) == row.path = "" \/ row.sha256 = ""

AllPassedStatuses(assertions) == \A i \in 1..Len(assertions) : assertions[i] = "passed"

ChecksumAlwaysOk(file, sha256) == TRUE

\* echo "${artifact_sha}  ${artifact_target}" | shasum -a 256 -c -
ChecksumOk(file, sha256) == ServedSha(file) = sha256

\* one pass of the loop over the rows: "ok" or the command that fails
RowError(v, row) ==
    IF RowSkipped(row) THEN "ok"
    ELSE IF ~Download(v, row.path).exists THEN "curl"
    ELSE IF ~ChecksumOk(Download(v, row.path), row.sha256) THEN "shasum"
    ELSE IF ~MatchesCurrentTestsJson(row.path) THEN "ok"
    ELSE IF ~Download(v, row.path).schemaValid THEN "artifactSchema"
    ELSE IF ~(Len(Download(v, row.path).assertions) > 0
              /\ AllPassedStatuses(Download(v, row.path).assertions)) THEN "artifactAssertions"
    ELSE "ok"

\* ajv validate -s evidence.schema.json -d evidence.json.  The schema is a file of the
\* repository outside the sources at hand: every TestArtifact carries format, path and
\* sha256, the JSON artifact of a test lies at current/tests/<testId>.json and the JUnit
\* artifact at current/tests/<testId>.junit.xml; v.schemaValid stands for the rest of
\* the document
EvidenceSchemaValid(v) ==
    /\ v.schemaValid
    /\ \A i \in 1..Len(ArtifactRows(v.testEvidence)) :
          LET artifact == ArtifactRows(v.testEvidence)[i]
          IN  /\ artifact.sha256 # ""
              /\ \/ artifact.format = "json" /\ artifact.path = "current/tests/a.json"
                 \/ artifact.format = "junit" /\ artifact.path = "current/tests/a.junit.xml"

\* the script under set -e: "success" or the first command that fails
VerifierOutcome(v) ==
    LET rows == ArtifactRows(v.testEvidence)
        bad == {i \in 1..Len(rows) : RowError(v, rows[i]) # "ok"}
    IN IF ~EvidenceSchemaValid(v) THEN "evidenceSchema"
       ELSE IF Len(v.testEvidence) = 0 THEN "testEvidenceEmpty"
       ELSE IF \E i \in 1..Len(v.testEvidence) : Len(v.testEvidence[i].assertions) = 0
            THEN "assertionsEmpty"
       ELSE IF \E i \in 1..Len(v.testEvidence) : ~AllPassedStatuses(v.testEvidence[i].assertions)
            THEN "assertionStatus"
       ELSE IF ~(v.assertionSummary.total >= v.assertionSummary.passed
                 /\ v.assertionSummary.failed = 0) THEN "assertionSummary"
       ELSE IF bad # {}
            THEN RowError(v, rows[CHOOSE i \in bad : \A j \in bad : i <= j])
       ELSE IF v.rest # "ok" THEN v.rest
       ELSE "success"

\* one run of verify-current.sh
VerifierRun ==
    /\ verifier.runs < MaxVerifierRuns
    /\ verifier' = [verifier EXCEPT !.runs = @ + 1, !.outcome = VerifierOutcome(verifier)]
    /\ UNCHANGED <<fsVars, envEdits, mergeLog, ingestFile, composerVars, ingest, history,
                   signer, producers, cli>>

VerifierIdle == verifier = IdleVerifier

ToolsIdle == HistoryIdle /\ SignerIdle /\ ProducersIdle /\ CliIdle /\ VerifierIdle

-----------------------------------------------------------------------------
(* build-evidence as a process: run() after its validation issues one file *)
(* system call after the other, and any of them may throw.                 *)

ComposerWrites == {"evidence.json", "deploy-run.json", "tests"}

\* pc: the call run() issues next; written: what this run has written below current/
IdleComposer ==
    [pc |-> "idle", runs |-> 0, outcome |-> ComposerError("none", Undefined), written |-> {}]

\* the positions between the first and the last write of a run
ComposerWriting == {"writeEvidence", "writeDeployRun", "removeTests", "copyTests"}

\* ensureFile, readJson and validateAndSummarizeTestEvidence: run() up to mkdirSync
ComposerStart ==
    /\ composer.pc \notin ComposerWriting
    /\ composer.runs < MaxComposerRuns
    /\ composer' = [pc |-> IF ComposerOutcome.ok THEN "writeEvidence" ELSE "failed",
                    runs |-> composer.runs + 1,
                    outcome |-> ComposerOutcome,
                    written |-> {}]
    /\ UNCHANGED <<fsVars, envEdits, mergeLog, ingestFile, policyFile, current, composerLog,
                   ingest, toolVars>>

\* writeFileSync(current/evidence.json)
ComposerWriteEvidence ==
    /\ composer.pc = "writeEvidence"
    /\ current' = [current EXCEPT !.evidence =
                      [exists |-> TRUE, generatedAt |-> NowIso,
                       testEvidence |-> manifests[RootDir].testEvidence,
                       assertionSummary |-> composer.outcome.summary,
                       checks |-> buildChecks(ingestFile, composer.outcome.summary)]]
    /\ composer' = [composer EXCEPT !.pc = "writeDeployRun",
                                    !.written = @ \cup {"evidence.json"}]
    /\ UNCHANGED <<fsVars, envEdits, mergeLog, ingestFile, policyFile, composerLog,
                   ingest, toolVars>>

\* writeFileSync(current/deploy-run.json)
ComposerWriteDeployRun ==
    /\ composer.pc = "writeDeployRun"
    /\ current' = [current EXCEPT !.deployRun = [exists |-> TRUE, deploy |-> ingestFile.deploy]]
    /\ composer' = [composer EXCEPT !.pc = "removeTests",
                                    !.written = @ \cup {"deploy-run.json"}]
    /\ UNCHANGED <<fsVars, envEdits, mergeLog, ingestFile, policyFile, composerLog,
                   ingest, toolVars>>

\* copyTestsFromArtifact: rmSync(current/tests)
ComposerRemoveTests ==
    /\ composer.pc = "removeTests"
    /\ current' = [current EXCEPT !.tests = EmptyCurrent.tests]
    /\ composer' = [composer EXCEPT !.pc = "copyTests"]
    /\ UNCHANGED <<fsVars, envEdits, mergeLog, ingestFile, policyFile, composerLog,
                   ingest, toolVars>>

\* copyTestsFromArtifact: mkdirSync and cpSync(out/test-evidence/tests, current/tests)
ComposerCopyTests ==
    /\ composer.pc = "copyTests"
    /\ current' = [current EXCEPT !.tests = copyTestsFromArtifact(testFiles)]
    /\ composer' = [composer EXCEPT !.pc = "done", !.written = @ \cup {"tests"}]
    /\ UNCHANGED <<fsVars, envEdits, mergeLog, ingestFile, policyFile, composerLog,
                   ingest, toolVars>>

\* the call run() is about to issue throws (no space, no permission): nothing
\* catches it and the process ends
ComposerAbort ==
    /\ composer.pc \in ComposerWriting
    /\ composer' = [composer EXCEPT !.pc = "aborted"]
    /\ UNCHANGED <<fsVars, envEdits, mergeLog, ingestFile, policyFile, current, composerLog,
                   ingest, toolVars>>

-----------------------------------------------------------------------------
(* Specifications.                                                         *)

FilesIdle ==
    /\ manifests = [d \in ManifestDirs |-> NoManifest]
    /\ testFiles = NoTestFiles
    /\ envEdits = 0
    /\ mergeLog = <<>>
    /\ ingestFile = NoIngest
    /\ policyFile = FALSE
    /\ current = EmptyCurrent
    /\ composerLog = <<>>
    /\ composer = IdleComposer
    /\ ingest = IdleIngest

NothingYet == FilesIdle /\ ToolsIdle

\* the producers and the merge command on one working directory; out/test-evidence
\* exists and holds no manifest yet
InitMerge == NothingYet

\* the producers as the workflow runs them: every matcher matches, EVIDENCE_RESULT is
\* unset or "passed"
ProducerUnit == \E rawResult \in {Undefined, "passed"} : runTestEvidence({}, rawResult)

ProducerE2e == \E rawResult \in {Undefined, "passed"} : runE2eTestEvidence({}, rawResult)

NextMerge ==
    \/ ProducerUnit
    \/ ProducerE2e
    \/ EnvPlaceManifest(ManifestDirs)
    \/ EnvEditEntry({RootDir, E2eDir}, MergeDefects)
    \/ runMergeTestEvidenceManifests

SpecMerge == InitMerge /\ [][NextMerge]_vars

\* the composer on a downloaded bundle: a merged manifest and its artifacts in tests/
BundleEntries ==
    {AllPassed(testDefinitions, "Compliance Test Evidence (Public)")
        \o AllPassed(e2eDefinitions, "Integration And E2E Tests"),
     << [AllPassed(testDefinitions, "Compliance Test Evidence (Public)")[1] EXCEPT
            !.assertions = SubSeq(@, 1, 2),
            !.artifacts = writeSanitizedArtifacts("permission-analyzer-unit", "passed",
                              SubSeq(AllPassed(testDefinitions,
                                  "Compliance Test Evidence (Public)")[1].assertions, 1, 2))],
        AllPassed(e2eDefinitions, "Integration And E2E Tests")[1] >>}

VerifiedIngest ==
    [exists |-> TRUE, commitSha |-> "def456",
     ci |-> [runId |-> "101", conclusion |-> "success"],
     deploy |-> [runId |-> "202", conclusion |-> "success", jobs |-> AllJobsSucceeded]]

InitComposer ==
    /\ \E entries \in BundleEntries :
          /\ manifests = [d \in ManifestDirs |->
                             IF d = RootDir THEN Manifest(entries) ELSE NoManifest]
          /\ testFiles = ProducerFiles(<<>>, entries, NoTestFiles)
    /\ envEdits = 0
    /\ mergeLog = <<>>
    /\ ingestFile \in {VerifiedIngest, NoIngest}
    /\ policyFile \in BOOLEAN
    /\ current = EmptyCurrent
    /\ composerLog = <<>>
    /\ composer = IdleComposer
    /\ ingest = IdleIngest
    /\ ToolsIdle

NextComposer ==
    \/ EnvPlaceManifest({RootDir})
    \/ EnvEditEntry({RootDir}, ComposerDefects)
    \/ EnvEditTestFile
    \/ ComposerRun

SpecComposer == InitComposer /\ [][NextComposer]_vars

\* the composer call by call on a downloaded bundle; the input files change only
\* between runs
InitComposerSteps == InitComposer

NextComposerSteps ==
    \/ composer.pc \notin ComposerWriting /\ EnvEditEntry({RootDir}, ComposerDefects)
    \/ composer.pc \notin ComposerWriting /\ EnvEditTestFile
    \/ ComposerStart
    \/ ComposerWriteEvidence
    \/ ComposerWriteDeployRun
    \/ ComposerRemoveTests
    \/ ComposerCopyTests
    \/ ComposerAbort

SpecComposerSteps == InitComposerSteps /\ [][NextComposerSteps]_vars

\* the entries as the producers write them in the workflow, where GITHUB_RUN_ID and
\* GITHUB_SHA are set
WorkflowEntries(entries) ==
    [i \in 1..Len(entries) |->
        [entries[i] EXCEPT !.runId = "101", !.sourceCommitSha = "4f9c2d7a1b3e8a6c5d0f"]]

\* the validator on a downloaded bundle: a merged manifest of the workflow and its
\* artifacts in tests/
InitValidator ==
    /\ \E entries \in BundleEntries :
          /\ manifests = [d \in ManifestDirs |->
                             IF d = RootDir THEN Manifest(WorkflowEntries(entries))
                             ELSE NoManifest]
          /\ testFiles = ProducerFiles(<<>>, entries, NoTestFiles)
    /\ envEdits = 0
    /\ mergeLog = <<>>
    /\ ingestFile = NoIngest
    /\ policyFile = FALSE
    /\ current = EmptyCurrent
    /\ composerLog = <<>>
    /\ composer = IdleComposer
    /\ ingest = IdleIngest
    /\ ToolsIdle

NextValidator ==
    \/ EnvPlaceManifest({RootDir})
    \/ EnvEditEntry({RootDir}, ComposerDefects)
    \/ EnvEditTestFile
    \/ ValidatorRun

SpecValidator == InitValidator /\ [][NextValidator]_vars

\* the ingest runs
InitIngest == NothingYet

NextIngest ==
    \/ IngestStart
    \/ IngestDeployRun
    \/ IngestDeployJobs
    \/ IngestCiRun
    \/ IngestCiArtifacts

SpecIngest == InitIngest /\ [][NextIngest]_vars

\* the snapshotter, run after publications of current/, on an empty history/
InitHistory == NothingYet

NextHistory ==
    \/ EnvPublishCurrent
    \/ HistoryRun

SpecHistory == InitHistory /\ [][NextHistory]_vars

\* the policy signer on the keys and policy files a checkout may hold
InitSigner ==
    FilesIdle /\ HistoryIdle /\ ProducersIdle /\ CliIdle /\ VerifierIdle /\ signer \in SignerInputs

NextSigner ==
    \/ EnvEditPolicy
    \/ SignerRun

SpecSigner == InitSigner /\ [][NextSigner]_vars

\* the two producers started in one working directory, their steps interleaved
InitProducers == NothingYet

NextProducers ==
    \E p \in ProducerIds :
        \/ ProducerStart(p)
        \/ ProducerMkdir(p)
        \/ ProducerWriteTest(p)
        \/ ProducerWriteManifest(p)

SpecProducers == InitProducers /\ [][NextProducers]_vars

\* command lines of the toolkit, one after the other, in one working directory
InitCli == NothingYet

NextCli == CliRun

SpecCli == InitCli /\ [][NextCli]_vars

\* the public verifier on the documents and files a repository may serve
InitVerifier ==
    FilesIdle /\ HistoryIdle /\ SignerIdle /\ ProducersIdle /\ CliIdle
        /\ verifier \in VerifierInputs

NextVerifier == VerifierRun

SpecVerifier == InitVerifier /\ [][NextVerifier]_vars

-----------------------------------------------------------------------------
(* Properties of the EvidenceComposer (SpecComposer).                      *)

Last(s) == s[Len(s)]

\* the step is a run of build-evidence
ComposerStep == Len(composerLog') = Len(composerLog) + 1

\* the manifest the composer reads
InputEntries ==
    IF manifests[RootDir].exists /\ manifests[RootDir].isArray
    THEN manifests[RootDir].testEvidence ELSE <<>>

\* C1: in every evidence.json the composer has written, an entry whose result is
\* "passed" has only assertions whose status is "passed"
C1_PassedEntryHasOnlyPassedAssertions ==
    current.evidence.exists =>
        \A i \in 1..Len(current.evidence.testEvidence) :
            LET e == current.evidence.testEvidence[i]
            IN e.result = "passed" =>
                  \A j \in 1..Len(e.assertions) : e.assertions[j].status = "passed"

C1_Witness ==
    /\ current.evidence.exists
    /\ \E i \in 1..Len(current.evidence.testEvidence) :
          /\ current.evidence.testEvidence[i].result = "passed"
          /\ Len(current.evidence.testEvidence[i].assertions) >= 2

\* the file a reader of the publication finds at a path relative to its root
Fetch(path) ==
    IF Len(path) >= 3 /\ path[1] = "current" /\ path[2] = "tests"
       /\ SubSeq(path, 3, Len(path)) \in CurrentTestPaths
    THEN current.tests[SubSeq(path, 3, Len(path))]
    ELSE NoContent

\* C2: after a successful composer run every artifact listed in the written
\* evidence.json is found at its path below the publication root, with the SHA-256
\* the document records
C2_PublishedArtifactsMatchTheirHashes ==
    current.evidence.exists =>
        \A i \in 1..Len(current.evidence.testEvidence) :
            \A j \in 1..Len(current.evidence.testEvidence[i].artifacts) :
                LET p == current.evidence.testEvidence[i].artifacts[j]
                IN /\ Fetch(p.path) # NoContent
                   /\ sha256File(Fetch(p.path)) = p.sha256

\* the inputs C3 names: a required id is missing, an assertion has status "failed",
\* an artifact file hashes to another value than the manifest records
MissingRequiredInput ==
    \E i \in 1..Len(ComposerRequiredTestIds) :
        ComposerRequiredTestIds[i] \notin SeqToSet(TestIdsOf(InputEntries))

FailedAssertionInput ==
    \E i \in 1..Len(InputEntries) :
        \E j \in 1..Len(InputEntries[i].assertions) :
            InputEntries[i].assertions[j].status = "failed"

ShaMismatchInput ==
    \E i \in 1..Len(InputEntries) :
        \E j \in 1..Len(InputEntries[i].artifacts) :
            LET p == InputEntries[i].artifacts[j]
            IN /\ Len(p.path) > 0
               /\ sha256File(ReadTestFile(testFiles, resolveLocalArtifactPath(p.path)))
                     # p.sha256

\* C3: a composer run on a manifest with a missing required id, a failed assertion
\* or an artifact whose hash differs raises, and leaves evidence.json, deploy-run.json
\* and current/tests as they were
C3_RejectedInputWritesNothing ==
    [][(ComposerStep /\ (MissingRequiredInput \/ FailedAssertionInput \/ ShaMismatchInput))
          => (~Last(composerLog').ok /\ current' = current)]_vars

C3_Witness ==
    /\ Len(composerLog) = 2
    /\ composerLog[1].ok
    /\ ~composerLog[2].ok
    /\ composerLog[2].kind = "sha256Mismatch"
    /\ ShaMismatchInput
    /\ current.evidence.exists

\* every entry passes the composer's checks on its own
EveryEntryValid == \A i \in 1..Len(InputEntries) : EntryError(InputEntries[i], {}, testFiles) = "ok"

AssertionCount == SeqSum([i \in 1..Len(InputEntries) |-> Len(InputEntries[i].assertions)])

CheckStatus(checks, id) ==
    IF \E i \in 1..Len(checks) : checks[i].id = id
    THEN checks[CHOOSE i \in 1..Len(checks) : checks[i].id = id].status
    ELSE Undefined

\* the run succeeded and wrote a summary that counts every assertion as passed
WroteAllPassedSummary ==
    /\ Last(composerLog').ok
    /\ current'.evidence.exists
    /\ current'.evidence.assertionSummary.total = AssertionCount
    /\ current'.evidence.assertionSummary.passed = AssertionCount
    /\ current'.evidence.assertionSummary.failed = 0
    /\ CheckStatus(current'.evidence.checks, "test-assertions") = "passed"

\* C4 (amended): with the ingest record and the policy provenance present, a manifest
\* whose entries are exactly the five ids the composer requires, each valid with only
\* passed assertions and matching artifacts, is accepted, and the summary written has
\* total = the number of assertions, passed = total, failed = 0 and the check
\* "test-assertions" with status "passed"
C4_FixedRequiredIdsAllPassedSummary ==
    [][(/\ ComposerStep
        /\ ingestFile.exists /\ policyFile
        /\ TestIdsOf(InputEntries) = ComposerRequiredTestIds
        /\ EveryEntryValid)
          => WroteAllPassedSummary]_vars

C4_Witness ==
    /\ Len(composerLog) >= 1
    /\ Last(composerLog).ok
    /\ TestIdsOf(current.evidence.testEvidence) = ComposerRequiredTestIds
    /\ current.evidence.assertionSummary.total = 15
    /\ current.evidence.assertionSummary.passed = 15
    /\ CheckStatus(current.evidence.checks, "test-assertions") = "passed"

\* C4 as stated: the required-id list is whatever list the manifest covers, as in the
\* example of permission-analyzer-unit (2 assertions) and device-sync-e2e (3 assertions)
C4_AnyRequiredListAllPassedSummary ==
    [][(/\ ComposerStep
        /\ ingestFile.exists /\ policyFile
        /\ TestIdsOf(InputEntries) = <<"permission-analyzer-unit", "device-sync-e2e">>
        /\ AssertionCount = 5
        /\ EveryEntryValid)
          => WroteAllPassedSummary]_vars

-----------------------------------------------------------------------------
(* Properties of merge-test-evidence-manifests (SpecMerge).                *)

\* the step is a run of the merge command
MergeStep == Len(mergeLog') = Len(mergeLog) + 1

\* the directories whose manifest file the merge reads entries from
ReadDirs == {d \in ManifestDirs : manifests[d].exists /\ manifests[d].isArray}

InputIdsIn(d) == SeqToSet(TestIdsOf(manifests[d].testEvidence))

\* the testIds that occur in entries of two different files
IdsInTwoFiles ==
    {t \in UNION {InputIdsIn(d) : d \in ReadDirs} :
        \E d1, d2 \in ReadDirs : d1 # d2 /\ t \in InputIdsIn(d1) /\ t \in InputIdsIn(d2)}

\* the testIds that occur twice in one file
IdsTwiceInOneFile ==
    {t \in UNION {InputIdsIn(d) : d \in ReadDirs} :
        \E d \in ReadDirs :
            \E i, j \in 1..Len(manifests[d].testEvidence) :
                /\ i # j
                /\ manifests[d].testEvidence[i].testId = t
                /\ manifests[d].testEvidence[j].testId = t}

\* every entry of every file passes validateEntry
EveryInputEntryValid ==
    \A d \in ReadDirs :
        \A i \in 1..Len(manifests[d].testEvidence) :
            validateEntry(manifests[d].testEvidence[i]) = "ok"

\* the required ids that no file has
MissingIds ==
    {requiredTestIds[i] : i \in 1..Len(requiredTestIds)}
        \ UNION {InputIdsIn(d) : d \in ReadDirs}

\* C5: a merge over files whose entries are all valid and of which two different
\* files hold the same testId is rejected with the duplicate error, and the error
\* names a testId that occurs twice: one of those in two files, unless a testId
\* repeated inside one file is met first
C5_DuplicateAcrossFilesRejected ==
    [][(MergeStep /\ EveryInputEntryValid /\ IdsInTwoFiles # {})
          => (/\ ~Last(mergeLog').outcome.ok
              /\ Last(mergeLog').outcome.kind = "duplicate"
              /\ Last(mergeLog').outcome.testId \in IdsInTwoFiles \cup IdsTwiceInOneFile
              /\ IdsTwiceInOneFile = {} => Last(mergeLog').outcome.testId \in IdsInTwoFiles)]_vars

C5_Witness ==
    /\ mergeLog # <<>>
    /\ EveryInputEntryValid
    /\ "sos-e2e" \in IdsInTwoFiles
    /\ Last(mergeLog).outcome.kind = "duplicate"
    /\ Last(mergeLog).outcome.testId \in IdsInTwoFiles

\* C6: a merge over files that lack a required id is rejected; when every entry
\* is valid and no testId occurs twice the error is the one for a missing
\* required id and names an id that is missing
C6_MissingRequiredIdRejected ==
    [][(MergeStep /\ MissingIds # {})
          => (/\ ~Last(mergeLog').outcome.ok
              /\ manifests' = manifests
              /\ (EveryInputEntryValid /\ IdsInTwoFiles = {} /\ IdsTwiceInOneFile = {})
                    => (/\ Last(mergeLog').outcome.kind = "missing"
                        /\ Last(mergeLog').outcome.testId \in MissingIds))]_vars

C6_Witness ==
    /\ mergeLog # <<>>
    /\ EveryInputEntryValid
    /\ ReadDirs # {}
    /\ MissingIds = {"ttl-indexes-api-unit"}
    /\ Last(mergeLog).outcome.kind = "missing"
    /\ Last(mergeLog).outcome.testId = "ttl-indexes-api-unit"

\* what the two producers leave: the unit manifest at out/test-evidence/, the e2e
\* manifest at out/test-evidence/e2e/
ProducerTreeTestIds ==
    [d \in ManifestDirs |->
        IF d = RootDir THEN [i \in 1..Len(testDefinitions) |-> testDefinitions[i].testId]
        ELSE IF d = E2eDir THEN [i \in 1..Len(e2eDefinitions) |-> e2eDefinitions[i].testId]
        ELSE <<>>]

\* C7: two merge runs in succession on the tree the two producers leave both
\* succeed, and write the same testEvidence
C7_MergeTwiceSucceedsWithSameEntries ==
    (/\ Len(mergeLog) >= 2
     /\ mergeLog[1].inputTestIds = ProducerTreeTestIds
     /\ mergeLog[1].outcome.ok)
        => (/\ mergeLog[2].outcome.ok
            /\ mergeLog[2].outcome.entries = mergeLog[1].outcome.entries)

\* the files in the order of their paths compared code unit by code unit
LexicographicOrder(dirs) ==
    CHOOSE files \in Orderings(dirs) :
        \A i, j \in 1..Len(files) : i < j => CodeUnitCompare(files[i], files[j]) < 0

\* C8: the testEvidence a merge writes is the same for every order in which the
\* files are enumerated, and is the entries of the files in lexicographic order of
\* the file paths, in file order within one file
C8_MergedOrderIsLexicographic ==
    [][(MergeStep /\ Last(mergeLog').outcome.ok)
          => (/\ \A enumerated \in collectManifestFiles(manifests) :
                    MergeOutcome(manifests, enumerated) = Last(mergeLog').outcome
              /\ TestIdsOf(Last(mergeLog').outcome.entries)
                    = Flatten([i \in 1..Cardinality(ReadDirs) |->
                          TestIdsOf(manifests[LexicographicOrder(ReadDirs)[i]].testEvidence)]))]_vars

-----------------------------------------------------------------------------
(* Properties of ingest-falcon-evidence (SpecIngest).                      *)

\* the step received the deploy run, and its head_sha is not the payload's source_sha
DeployHeadShaMismatchStep ==
    /\ ingest.pc = "deployRun"
    /\ ingest'.runs = ingest.runs
    /\ ingest'.deployRun.ok
    /\ ingest'.deployRun.head_sha # ingest.payload.source_sha

\* C9: when the deploy run's head_sha differs from the payload's source_sha the run
\* fails with the head_sha mismatch error, has made no request but the one for the
\* deploy run, makes none afterwards, and writes no ingest record
C9_DeployHeadShaMismatchStopsRun ==
    [][/\ DeployHeadShaMismatchStep
          => (/\ ingest'.pc = "failed"
              /\ ingest'.error = "deployHeadShaMismatch"
              /\ ingest'.requests = <<"deployRun">>
              /\ ingestFile' = ingestFile)
       /\ ingest.error = "deployHeadShaMismatch"
          => (/\ ingest'.runs = ingest.runs + 1
              /\ ingestFile' = ingestFile)]_vars

C9_Witness ==
    /\ ingest.pc = "failed"
    /\ ingest.error = "deployHeadShaMismatch"
    /\ ingest.deployRun.head_sha = "abc123"
    /\ ingest.payload.source_sha = "def456"
    /\ ingest.requests = <<"deployRun">>
    /\ ~ingestFile.exists

\* C10: every ingest record written has deploy.conclusion and ci.conclusion
\* "success", a job of each required name in deploy.jobs, and conclusion "success"
\* on every job of deploy.jobs that has a required name
C10_RecordHasOnlySuccessfulRequiredJobs ==
    ingestFile.exists =>
        /\ ingestFile.deploy.conclusion = "success"
        /\ ingestFile.ci.conclusion = "success"
        /\ \A r \in SeqToSet(requiredDeployJobs) :
              \E i \in 1..Len(ingestFile.deploy.jobs) : ingestFile.deploy.jobs[i].name = r
        /\ \A i \in 1..Len(ingestFile.deploy.jobs) :
              ingestFile.deploy.jobs[i].name \in SeqToSet(requiredDeployJobs)
                  => ingestFile.deploy.jobs[i].conclusion = "success"


\* the step received the deploy jobs and ran the required-job check on them
DeployJobsCheckedStep ==
    /\ ingest.pc = "deployJobs"
    /\ ingest'.runs = ingest.runs
    /\ ingest'.error \notin {"missingToken", "apiRequestFailed"}

\* no required name is the name of two jobs of the response
RequiredNamesUnique(jobs) ==
    \A i, j \in 1..Len(jobs) :
        (jobs[i].name = jobs[j].name /\ jobs[i].name \in SeqToSet(requiredDeployJobs)) => i = j

\* the violations of a job list: the required names without a job, the required
\* names of a job whose conclusion is not "success"
RequiredJobViolations(jobs) ==
    {"missing:" \o r : r \in {n \in SeqToSet(requiredDeployJobs) :
                                 \A i \in 1..Len(jobs) : jobs[i].name # n}}
    \cup {"conclusion:" \o r : r \in {n \in SeqToSet(requiredDeployJobs) :
                                 \E i \in 1..Len(jobs) :
                                     jobs[i].name = n /\ jobs[i].conclusion # "success"}}

-----------------------------------------------------------------------------
(* Claims about the history snapshotter.                                   *)

\* the positions of the entries of history/index.json that name a snapshot
EntriesNamed(h, snapshot) ==
    {i \in 1..Len(h.index.snapshots) : h.index.snapshots[i].snapshot = snapshot}

\* a run that took a snapshot
SnapshotStep ==
    /\ history'.runs = history.runs + 1
    /\ history'.error = ""

\* C12: after any sequence of snapshotter runs history/index.json holds at most one
\* entry per snapshot name, every snapshot directory has exactly one entry, and a run
\* for a snapshot name that is already indexed (the same generatedAt and the same
\* commit as an earlier run) leaves exactly one entry of that name, at the head.
C12_IndexHasOneEntryPerSnapshot ==
    [][/\ \A n \in DOMAIN history'.dirs :
             Cardinality(EntriesNamed(history', "history/" \o n)) = 1
       /\ \A i \in 1..Len(history'.index.snapshots) :
             EntriesNamed(history', history'.index.snapshots[i].snapshot) = {i}
       /\ SnapshotStep =>
             EntriesNamed(history', "history/" \o SnapshotName(history.current.evidence)) = {1}
      ]_vars

\* two runs on the same generatedAt and commit
C12_Witness ==
    /\ history.runs = 2
    /\ history.error = ""
    /\ Len(history.index.snapshots) = 1
    /\ history.index.snapshots[1].sourceCommitSha = "4f9c2d7a1b3e8a6c5d0f"
    /\ history.current.evidence.generatedAt = "2026-02-28T21:44:29.123Z"
    /\ history.index.snapshots[1].generatedAt = "2026-02-28T21:44:29.123Z"

\* YYYYMMDDTHHMMSSZ: the instant to the second
SecondsTimestamp(d) == Join(d.date) \o "T" \o Join(d.time) \o "Z"

\* C19: every snapshot directory is named <YYYYMMDDTHHMMSSZ>-<first 12 characters of the
\* commit SHA>, the timestamp being that of the snapshot's generatedAt to the second,
\* without a fractional-seconds component, whatever the milliseconds of generatedAt.
C19_SnapshotNameHasNoFraction ==
    \A n \in DOMAIN history.dirs :
        n = SecondsTimestamp(DateOf(history.dirs[n].evidence.generatedAt)) \o "-"
              \o ShortSha(SnapshotCommitSha(history.dirs[n].evidence))

\* the index entry of a snapshot directory
EntryOf(h, n) == h.index.snapshots[CHOOSE i \in EntriesNamed(h, "history/" \o n) : TRUE]

\* C20: a run that snapshots current/ for a commit leaves every snapshot directory made
\* for a different commit, and that directory's index entry, as they were.
C20_OtherCommitsSnapshotsUntouched ==
    [][SnapshotStep =>
          \A n \in DOMAIN history.dirs :
              SnapshotCommitSha(history.dirs[n].evidence)
                    # SnapshotCommitSha(history.current.evidence)
                 => /\ n \in DOMAIN history'.dirs
                    /\ history'.dirs[n] = history.dirs[n]
                    /\ EntriesNamed(history', "history/" \o n) # {}
                    /\ EntryOf(history', n) = EntryOf(history, n)]_vars

-----------------------------------------------------------------------------
(* Claims about the policy signer.                                         *)

SignerStep == signer'.runs = signer.runs + 1

\* the derived public key equals the stored one and the generated signature verifies
SignerChecksPass(s) ==
    LET privateKey == UnescapeLineEnds(s.privateKeyRaw)
    IN  /\ IsPrivateKey(privateKey)
        /\ normalizePem(buildPublicKeyPem(privateKey)) = normalizePem(s.storedPublicKeyPem)
        /\ Verified(s.policyContent, signContent(s.policyContent, privateKey),
                    s.storedPublicKeyPem)

\* C13: a run of the policy signer changes the signature file or the policy manifest
\* only if the public key derived from POLICY_SIGNING_PRIVATE_KEY equals the stored
\* public key and the generated signature verifies against the stored key; a run on
\* which either check fails raises and leaves both files as they were.
C13_SignerWritesOnlyAfterBothChecks ==
    [][SignerStep =>
          /\ (signer'.signatureFile # signer.signatureFile \/ signer'.manifest # signer.manifest)
                => /\ SignerChecksPass(signer)
                   /\ Verified(signer.policyContent, signer'.signatureFile,
                               signer.storedPublicKeyPem)
          /\ ~SignerChecksPass(signer)
                => /\ signer'.error # ""
                   /\ signer'.signatureFile = signer.signatureFile
                   /\ signer'.manifest = signer.manifest]_vars

\* the key of B against the stored public key of A: the run has raised, no signature
C13_Witness ==
    /\ signer.runs = 1
    /\ signer.error = "keyMismatch"
    /\ signer.privateKeyRaw.key = "B"
    /\ signer.storedPublicKeyPem.key = "A"
    /\ signer.signatureFile = NoSignature
    /\ signer.manifest.updatedAt # NowIso

-----------------------------------------------------------------------------
(* Claims about the producers.                                             *)

\* EVIDENCE_RESULT denotes a passing outcome: it is unset or "passed"
EvidenceResultPasses(rawResult) == rawResult \in {Undefined, "passed"}

\* C14: an entry written by either producer has result "passed" only if each of its
\* own assertions has status "passed" and EVIDENCE_RESULT denotes a passing outcome;
\* under every other value of EVIDENCE_RESULT every entry has result "failed".
C14_ResultPassedOnlyUnderPassingFlag ==
    \A p \in ProducerIds : \A i \in 1..Len(producers[p].entries) :
        LET entry == producers[p].entries[i]
        IN  /\ entry.result = "passed" =>
                  /\ \A a \in 1..Len(entry.assertions) : entry.assertions[a].status = "passed"
                  /\ EvidenceResultPasses(producers[p].rawResult)
            /\ ~EvidenceResultPasses(producers[p].rawResult) => entry.result = "failed"

\* the artifact files a producer that has finished has written
ProducerArtifactPaths(p) ==
    UNION {{ProducerPrefix(p) \o <<"tests", JsonName(ProducerDefinitions(p)[i].testId)>>,
            ProducerPrefix(p) \o <<"tests", JunitName(ProducerDefinitions(p)[i].testId)>>}
           : i \in 1..Len(ProducerDefinitions(p))}

\* C16: whatever the interleaving of the steps of the two producers, once both have
\* finished the manifest of each and every artifact file of each are present: no
\* producer removes or changes what the other has written.
C16_BothProducersOutputsPresent ==
    (\A p \in ProducerIds : producers[p].pc = "done") =>
        \A p \in ProducerIds :
            /\ manifests[ProducerDir(p)] = Manifest(producers[p].entries)
            /\ \A path \in ProducerArtifactPaths(p) : testFiles[path] # NoContent

-----------------------------------------------------------------------------
(* Claims about the CLI and the validator.                                 *)

\* C15: a command line whose command argument is absent or is not one of the listed
\* command names prints the usage text, ends with a non-zero status and invokes nothing.
C15_UnlistedCommandPrintsUsage ==
    (cli.runs > 0 /\ cli.last.argument \notin handlers) =>
        /\ cli.last.usage
        /\ cli.last.exitCode # 0
        /\ cli.last.invoked = Undefined

\* the four commands of the local pipeline, in order
LocalPipeline ==
    <<"run-test-evidence", "run-e2e-test-evidence", "merge-test-evidence-manifests",
      "validate-test-evidence">>

\* C18: with every environment option unset and every asserted source file matching,
\* run-test-evidence, run-e2e-test-evidence, merge-test-evidence-manifests and
\* validate-test-evidence, run in that order in an empty working directory, all end
\* without error.
C18_LocalPipelineValidates ==
    (/\ Len(cli.commands) = Len(LocalPipeline)
     /\ \A i \in 1..Len(LocalPipeline) : cli.commands[i].command = LocalPipeline[i])
        => \A i \in 1..Len(LocalPipeline) : cli.commands[i].error = ""

-----------------------------------------------------------------------------
(* Claims about the public verifier.                                       *)

\* the conditions on the document itself: testEvidence is non-empty, every entry has a
\* non-empty assertions array with every status "passed", and the summary adds up
DocumentConditions(v) ==
    /\ Len(v.testEvidence) > 0
    /\ \A i \in 1..Len(v.testEvidence) :
          /\ Len(v.testEvidence[i].assertions) > 0
          /\ AllPassedStatuses(v.testEvidence[i].assertions)
    /\ v.assertionSummary.total >= v.assertionSummary.passed
    /\ v.assertionSummary.failed = 0

\* the artifact downloads with the SHA-256 the document records
DownloadsWithRecordedSha(v, artifact) ==
    /\ Download(v, artifact.path).exists
    /\ ServedSha(Download(v, artifact.path)) = artifact.sha256

\* the downloaded artifact has a non-empty assertions array, every status "passed"
ArtifactAssertionsPassed(v, artifact) ==
    /\ Len(Download(v, artifact.path).assertions) > 0
    /\ AllPassedStatuses(Download(v, artifact.path).assertions)

-----------------------------------------------------------------------------
(* Further properties of merge-test-evidence-manifests (SpecMerge).        *)

\* the string fields an entry must carry
RequiredEntryStrings(entry) ==
    <<entry.testId, entry.sourcePath, entry.workflowPath, entry.runId, entry.jobName,
      entry.sourceCommitSha, entry.verificationCommand>>

\* the entry fails structural validation: a required string is missing or empty,
\* executedAt is no timestamp, there is no assertion, or an assertion failed
StructurallyInvalid(entry) ==
    \/ \E k \in 1..Len(RequiredEntryStrings(entry)) :
          ~IsNonEmptyString(RequiredEntryStrings(entry)[k])
    \/ ~DateParseIsFinite(entry.executedAt)
    \/ Len(entry.assertions) = 0
    \/ \E i \in 1..Len(entry.assertions) : entry.assertions[i].status = "failed"

\* C21: a merge run over files of which some entry fails structural validation
\* (a required string field missing or empty, executedAt not a timestamp, no
\* assertion, or a failed assertion) is rejected
C21_StructurallyInvalidEntryRejected ==
    [][(MergeStep /\ \E d \in ReadDirs :
                        \E i \in 1..Len(manifests[d].testEvidence) :
                            StructurallyInvalid(manifests[d].testEvidence[i]))
          => ~Last(mergeLog').outcome.ok]_vars


-----------------------------------------------------------------------------
(* Further properties of build-evidence (SpecComposer).                    *)

\* the merge's verdict on the entries as the content of one manifest file: its
\* per-entry validation, its duplicate check and its required-id check
AggregatorAccepts(entries) ==
    MergeLoop([i \in 1..Len(entries) |-> [file |-> RootDir, entry |-> entries[i]]],
              1, {}, <<>>).ok

\* C22: every manifest the composer accepts is one the merge command's checks
\* (per-entry validation, duplicate testId, required ids) accept as well
C22_ComposerAcceptanceImpliesAggregatorAcceptance ==
    [][(ComposerStep /\ Last(composerLog').ok) => AggregatorAccepts(InputEntries)]_vars


-----------------------------------------------------------------------------
(* Properties of build-evidence call by call (SpecComposerSteps).          *)

\* C23: evidence.json is the last thing a composer run writes: a run that aborted
\* has not written evidence.json, and whenever the evidence.json of the present run
\* is in current/, the run has already written deploy-run.json and copied the test
\* artifacts into current/tests
C23_EvidenceJsonIsTerminalOutput ==
    /\ composer.pc = "aborted" => "evidence.json" \notin composer.written
    /\ "evidence.json" \in composer.written => composer.written = ComposerWrites


-----------------------------------------------------------------------------
(* Further properties of ingest-falcon-evidence (SpecIngest).              *)

\* the errors of the checks of the SourceRunVerifier, in the order of the checks
IngestCheckErrors ==
    <<"missingField", "unexpectedSourceRepo", "invalidRunId", "deployHeadShaMismatch",
      "deployConclusion", "deployJobs", "ciHeadShaMismatch", "ciConclusion",
      "missingArtifact">>

\* check k holds of what the run has read
IngestCheckHolds(s, k) ==
    CASE k = 1 -> \A i \in 1..Len(PayloadKeys) : IsPresentString(s.payload[PayloadKeys[i]])
      [] k = 2 -> s.payload.source_repo = "panalgin/falcon"
      [] k = 3 -> ValidRunId(s.payload.ci_run_id) /\ ValidRunId(s.payload.deploy_run_id)
      [] k = 4 -> s.deployRun.head_sha = s.payload.source_sha
      [] k = 5 -> s.deployRun.conclusion = "success"
      [] k = 6 -> \A i \in 1..Len(requiredDeployJobs) :
                     /\ FindJob(s.deployJobs, requiredDeployJobs[i]) # 0
                     /\ s.deployJobs[FindJob(s.deployJobs, requiredDeployJobs[i])].conclusion
                           = "success"
      [] k = 7 -> s.ciRun.head_sha = s.payload.source_sha
      [] k = 8 -> s.ciRun.conclusion = "success"
      [] k = 9 -> \A n \in {s.payload.ci_artifact_name, s.payload.policy_artifact_name} :
                     \E i \in 1..Len(s.ciArtifacts) :
                         s.ciArtifacts[i].name = n /\ ~s.ciArtifacts[i].expired

\* the API requests a run has issued when it evaluates check k
IngestRequestsAt(k) ==
    IF k <= 3 THEN <<>>
    ELSE IF k <= 5 THEN <<"deployRun">>
    ELSE IF k = 6 THEN <<"deployRun", "deployJobs">>
    ELSE IF k <= 8 THEN <<"deployRun", "deployJobs", "ciRun">>
    ELSE <<"deployRun", "deployJobs", "ciRun", "ciArtifacts">>

\* the run s stopped on the error of check k: the checks before k hold, check k
\* fails, and no request beyond those of check k was issued
StoppedAtFirstFailure(s, k) ==
    /\ \A j \in 1..(k - 1) : IngestCheckHolds(s, j)
    /\ ~IngestCheckHolds(s, k)
    /\ s.requests = IngestRequestsAt(k)

\* the run s passed every check, in order
PassedEveryCheck(s) ==
    /\ \A k \in 1..Len(IngestCheckErrors) : IngestCheckHolds(s, k)
    /\ s.requests = IngestRequestsAt(Len(IngestCheckErrors))

\* C24: the checks are made in the order payload shape, source_repo, run ids, deploy
\* head_sha, deploy conclusion, required deploy jobs, CI head_sha, CI conclusion, CI
\* artifacts (an expired artifact counts as missing); a run that ends on the error
\* of a check has passed the checks before it and issued no request after it, and
\* the ingest record is written only by a run that passed every check
C24_ChecksInOrderFirstFailureStops ==
    [][/\ \A k \in 1..Len(IngestCheckErrors) :
             (ingest'.pc = "failed" /\ ingest'.error = IngestCheckErrors[k])
                => StoppedAtFirstFailure(ingest', k)
       /\ ingest'.pc = "done" => PassedEveryCheck(ingest')
       /\ ingest.pc = "failed" /\ ingest'.runs = ingest.runs => ingest' = ingest
       /\ ingestFile' # ingestFile => ingest'.pc = "done" /\ ingest.pc = "ciArtifacts"]_vars

\* a run whose deploy run response has both the wrong head_sha and a conclusion
\* other than success stopped on the head_sha, after one request
C24_Witness ==
    /\ ingest.pc = "failed"
    /\ ingest.error = "deployHeadShaMismatch"
    /\ ingest.deployRun.conclusion # "success"
    /\ ingest.requests = <<"deployRun">>


-----------------------------------------------------------------------------
(* Further properties of the history snapshotter (SpecHistory).            *)

\* the milliseconds of the instant a generatedAt denotes, counted from the start of
\* its second (the model's instants lie in one second)
MillisOf(generatedAt) == IF DateOf(generatedAt).ms = "123" THEN 123 ELSE 0

\* the entries of history/index.json are in non-increasing order of generatedAt
NewestGeneratedAtFirst(h) ==
    \A i, j \in 1..Len(h.index.snapshots) :
        i < j => MillisOf(h.index.snapshots[i].generatedAt)
                    >= MillisOf(h.index.snapshots[j].generatedAt)

\* the run's entry is first, and the entries of other snapshot names follow in the
\* order they had
RunEntryFirstOthersKept ==
    /\ history'.index.snapshots[1].snapshot = "history/" \o SnapshotName(history.current.evidence)
    /\ history'.index.snapshots[1].generatedAt = history.current.evidence.generatedAt
    /\ Tail(history'.index.snapshots)
          = SelectSeq(history.index.snapshots,
                      LAMBDA item : item.snapshot # history'.index.snapshots[1].snapshot)

\* the document the run snapshots is not older than any entry already indexed
SnapshotsNewestDocument ==
    \A i \in 1..Len(history.index.snapshots) :
        MillisOf(history.current.evidence.generatedAt)
            >= MillisOf(history.index.snapshots[i].generatedAt)

C26_RejectedMergeWritesNothing ==
    [][(MergeStep /\ ~Last(mergeLog').outcome.ok)
          => (manifests' = manifests /\ testFiles' = testFiles)]_vars

\* a merge rejected for a failed assertion, with the unit manifest still in place
C26_Witness ==
    /\ mergeLog # <<>>
    /\ ~Last(mergeLog).outcome.ok
    /\ Last(mergeLog).outcome.kind = "failedAssertions"
    /\ manifests[RootDir].exists
    /\ Len(manifests[RootDir].testEvidence) = Len(testDefinitions)


\* the assertions of an entry whose status is as given
CountStatus(entry, status) ==
    Cardinality({i \in 1..Len(entry.assertions) : entry.assertions[i].status = status})

\* the summary is the one the entries determine
SummaryDerivedFrom(summary, entries) ==
    /\ summary.total = summary.passed + summary.failed
    /\ summary.total = SeqSum([i \in 1..Len(entries) |-> Len(entries[i].assertions)])
    /\ Len(summary.byTest) = Len(entries)
    /\ \A i \in 1..Len(entries) :
          /\ summary.byTest[i].testId = entries[i].testId
          /\ summary.byTest[i].total = Len(entries[i].assertions)
          /\ summary.byTest[i].total = summary.byTest[i].passed + summary.byTest[i].failed
          /\ summary.byTest[i].passed = CountStatus(entries[i], "passed")

\* C27: the AssertionSummary of an accepted manifest is derived from its entries:
\* total = passed + failed = the number of assertions of all entries, byTest has one
\* row per entry in entry order with total = passed + failed = the entry's number of
\* assertions, and the check test-assertions is "passed" exactly when failed = 0
C27_SummaryDerivedFromEntries ==
    [][(ComposerStep /\ Last(composerLog').ok)
          => (/\ SummaryDerivedFrom(Last(composerLog').summary, InputEntries)
              /\ current'.evidence.assertionSummary = Last(composerLog').summary
              /\ (CheckStatus(current'.evidence.checks, "test-assertions") = "passed")
                    <=> (current'.evidence.assertionSummary.failed = 0))]_vars

\* a run on the five required entries: fifteen assertions in all, five rows
C27_Witness ==
    /\ composerLog # <<>>
    /\ Last(composerLog).ok
    /\ current.evidence.exists
    /\ Len(current.evidence.assertionSummary.byTest) = 5
    /\ current.evidence.assertionSummary.byTest[5].testId = "sos-e2e"
    /\ current.evidence.assertionSummary.total = 15
    /\ current.evidence.assertionSummary.passed = 15
    /\ CheckStatus(current.evidence.checks, "test-assertions") = "passed"


-----------------------------------------------------------------------------
(* Further properties of the producers (SpecProducers).                    *)

\* the producer is in the loop over its definitions, with its tests directory in place
InLoop(p) ==
    /\ producers[p].pc = "write"
    /\ Len(producers[p].entries) < Len(ProducerDefinitions(p))
    /\ ProducerTestsDir(p) \in producers.dirs

\* one evaluated assertion per definition, in the order of the definitions
EvaluatedInOrder(assertions, definitions) ==
    /\ Len(assertions) = Len(definitions)
    /\ \A i \in 1..Len(definitions) :
          /\ assertions[i].assertionId = definitions[i].assertionId
          /\ assertions[i].status \in {"passed", "failed"}

\* C28: no failure stops a producer: each pass of its loop, whatever the outcome of
\* the assertions before it (an assertion whose source file cannot be matched
\* included), adds the entry of the next test definition with one evaluated assertion
\* per definition, in order, and writes both artifacts of that test
C28_EveryDefinitionEvaluatedAndEmitted ==
    [][\A p \in ProducerIds :
          (InLoop(p) /\ producers'[p] # producers[p]) =>
             LET test == ProducerDefinitions(p)[Len(producers[p].entries) + 1]
             IN  /\ Len(producers'[p].entries) = Len(producers[p].entries) + 1
                 /\ Last(producers'[p].entries).testId = test.testId
                 /\ EvaluatedInOrder(Last(producers'[p].entries).assertions, test.assertions)
                 /\ testFiles'[ProducerPrefix(p) \o <<"tests", JsonName(test.testId)>>]
                       # NoContent
                 /\ testFiles'[ProducerPrefix(p) \o <<"tests", JunitName(test.testId)>>]
                       # NoContent]_vars


-----------------------------------------------------------------------------
(* Properties of validate-test-evidence (SpecValidator).                   *)

\* a run of the validator
ValidatorStep == cli'.runs = cli.runs + 1 /\ cli'.last.invoked = "validate-test-evidence"

\* the file the validator reads for a listed artifact
ArtifactFile(artifact) == ReadTestFile(testFiles, resolveArtifactPath(artifact.path))

\* some listed artifact's file hashes to another value than the recorded one
RecordedShaDiffers ==
    \E i \in 1..Len(InputEntries) :
        \E j \in 1..Len(InputEntries[i].artifacts) :
            LET artifact == InputEntries[i].artifacts[j]
            IN  /\ Len(artifact.path) > 0
                /\ ArtifactFile(artifact) # NoContent
                /\ sha256File(ArtifactFile(artifact)) # artifact.sha256

\* some JSON artifact names another testId or another result than its entry
EmbeddedFieldsDiffer ==
    \E i \in 1..Len(InputEntries) :
        \E j \in 1..Len(InputEntries[i].artifacts) :
            LET artifact == InputEntries[i].artifacts[j]
            IN  /\ artifact.format = "json"
                /\ Len(artifact.path) > 0
                /\ ArtifactFile(artifact) # NoContent
                /\ \/ ArtifactFile(artifact).testId # InputEntries[i].testId
                   \/ ArtifactFile(artifact).result # InputEntries[i].result

\* some entry is "passed" and has a failed assertion
PassedWithFailedAssertion ==
    \E i \in 1..Len(InputEntries) :
        /\ InputEntries[i].result = "passed"
        /\ \E j \in 1..Len(InputEntries[i].assertions) :
              InputEntries[i].assertions[j].status = "failed"

\* C29: the validator fails on every manifest in which an artifact's recomputed
\* SHA-256 differs from the recorded one, a JSON artifact's testId or result differs
\* from its entry's, or a "passed" entry has a failed assertion; it reports success
\* only when none of these holds and every required test id is present
C29_ValidatorRejectsIntegrityErrors ==
    [][ValidatorStep =>
          /\ (RecordedShaDiffers \/ EmbeddedFieldsDiffer \/ PassedWithFailedAssertion)
                => cli'.last.error # ""
          /\ cli'.last.error = ""
                => /\ cli'.last.exitCode = 0
                   /\ \A i \in 1..Len(defaultRequiredTestIds) :
                         defaultRequiredTestIds[i] \in SeqToSet(TestIdsOf(InputEntries))]_vars

\* a run on a manifest whose recorded hash is that of another file: rejected
C29_Witness ==
    /\ cli.runs > 0
    /\ cli.last.invoked = "validate-test-evidence"
    /\ cli.last.error = "sha256Mismatch"
    /\ RecordedShaDiffers
    /\ ~EmbeddedFieldsDiffer
    /\ ~PassedWithFailedAssertion


\* C30: every assertion of every entry of a merged manifest the merge has written
\* has the status "passed"
C30_MergedAssertionsAllPassed ==
    \A k \in 1..Len(mergeLog) :
        mergeLog[k].outcome.ok =>
            \A i \in 1..Len(mergeLog[k].outcome.entries) :
                \A j \in 1..Len(mergeLog[k].outcome.entries[i].assertions) :
                    mergeLog[k].outcome.entries[i].assertions[j].status = "passed"

====
